---------------------------- MODULE Spec2Model ----------------------------
(***************************************************************************)
(* Threat-synthesis pipeline of UnitOneAI/Synthesis: the OWASP risk rating *)
(* engine, the model-response parser with truncated-array recovery, the    *)
(* pattern scanner and the analysis pipeline with its persistence layer.   *)
(*                                                                         *)
(* JavaScript values are tagged records [k |-> kind, v |-> payload].       *)
(* Numbers are kept in tenths (25 is 2.5) so that Math.round is exact; a   *)
(* string is the sequence of its symbols, where a symbol is either one     *)
(* structurally significant character or a run of ordinary characters.     *)
(***************************************************************************)
EXTENDS Integers, Sequences, FiniteSets, TLC

VARIABLES
    \* risk engine: the two raw factor objects and the rating computed
    rawLikelihood, rawImpact, rating,
    \* response parser: the elements the upstream model set out to write, the
    \* text that arrived (their serialization, fenced or not, cut after cutAt
    \* symbols) and the outcome of parseThreatsResponse on it
    respElems, fenced, cutAt, text, parsed,
    \* pattern scanner: the files handed to scanSecurity, the index of the next
    \* file of its loop, the findings so far and whether it has returned
    scanFiles, scanNext, findings, scanReturned,
    \* persistence layer: the rows of the sessions, threats, mitigations and
    \* design_reviews tables, by primary key
    sessions, threats, mitigations, designReviews,
    \* analysis pipeline: the runs started by POST analyze, by number, each
    \* with its session, source, position and intermediate results
    runs,
    \* requests served so far (PATCH threat and apply-fix)
    requests,
    \* the temporary directories that exist, each by its path
    tmpDirs,
    \* history: per threat id the generated record the pipeline persisted and
    \* the arguments it gave createThreat; per threat id the severity of the
    \* last PATCH that carried one
    persistLog, patchLog,
    \* file walk: the directory tree under the root handed to walkDir, the
    \* frames of its recursion, the list it collects, the numbers of
    \* directories listed and of entries examined so far, and its position
    walkTree, walkStack, walkFiles, walkListed, walkExamined, walkState,
    \* architecture extraction: the categories the heuristics matched in
    \* the file set and what extractArchitecture returned
    archInput, archResult,
    \* the analysis generateDFD is given, and the diagram it returned
    dfdInput, dfdResult

riskVars == <<rawLikelihood, rawImpact, rating>>
parseVars == <<respElems, fenced, cutAt, text, parsed>>

scanVars == <<scanFiles, scanNext, findings, scanReturned>>

dbVars == <<sessions, threats, mitigations, designReviews>>
pipeVars == <<dbVars, runs, requests, tmpDirs, persistLog, patchLog>>

walkVars == <<walkTree, walkStack, walkFiles, walkListed, walkExamined, walkState>>
archVars == <<archInput, archResult, dfdInput, dfdResult>>
analyzerVars == <<walkVars, archVars>>

\* What the pipeline and the request handlers leave alone.
otherVars == <<riskVars, parseVars, scanVars, analyzerVars>>

vars == <<riskVars, parseVars, scanVars, pipeVars, analyzerVars>>

--------------------------------------------------------------------------
(* JavaScript values *)

Undef == [k |-> "undefined"]
Null == [k |-> "null"]
NaNVal == [k |-> "nan"]
NumT(t) == [k |-> "number", v |-> t]
Num(n) == NumT(10 * n)
Str(s) == [k |-> "string", v |-> s]
Bool(b) == [k |-> "boolean", v |-> b]
Arr(items) == [k |-> "array", v |-> items]
Obj(pairs) == [k |-> "object", v |-> pairs]

\* x ?? y
Nullish(x) == x.k \in {"undefined", "null"}
Coalesce(x, y) == IF Nullish(x) THEN y ELSE x

\* !x
Falsy(x) ==
    \/ x.k \in {"undefined", "null", "nan"}
    \/ x.k = "number" /\ x.v = 0
    \/ x.k = "string" /\ x.v = <<>>
    \/ x.k = "boolean" /\ ~x.v

\* Array.isArray(x)
IsArray(x) == x.k = "array"

\* Indexes of the pairs of object o whose key is the one-symbol string key.
KeyIdx(o, key) == {i \in 1..Len(o.v) : o.v[i][1] = <<key>>}

\* o.key for a value that is not null or undefined: an own property of an
\* object (the last of duplicate keys, as JSON.parse keeps it), else
\* undefined.  The callers guard the null/undefined case, which throws.
Get(o, key) ==
    IF o.k = "object" /\ KeyIdx(o, key) # {}
    THEN o.v[CHOOSE i \in KeyIdx(o, key) : \A j \in KeyIdx(o, key) : j <= i][2]
    ELSE Undef

\* The symbols that spell a numeric literal, with their value in tenths.
NumSyms == {"0", "1", "2", "3", "4", "5", "6", "7", "8", "9", "12", "-1", "2.5", "8.4"}
SymTenths(s) ==
    CASE s = "0" -> 0 [] s = "1" -> 10 [] s = "2" -> 20 [] s = "3" -> 30
      [] s = "4" -> 40 [] s = "5" -> 50 [] s = "6" -> 60 [] s = "7" -> 70
      [] s = "8" -> 80 [] s = "9" -> 90 [] s = "12" -> 120 [] s = "-1" -> -10
      [] s = "2.5" -> 25 [] s = "8.4" -> 84

\* ToNumber, the coercion Math.round applies to its argument.
RECURSIVE ToNumber(_)
ToNumber(x) ==
    CASE x.k = "number" -> [nan |-> FALSE, t |-> x.v]
      [] x.k = "boolean" -> [nan |-> FALSE, t |-> IF x.v THEN 10 ELSE 0]
      [] x.k = "null" -> [nan |-> FALSE, t |-> 0]
      [] x.k = "string" ->
            IF x.v = <<>> THEN [nan |-> FALSE, t |-> 0]
            ELSE IF Len(x.v) = 1 /\ x.v[1] \in NumSyms
                 THEN [nan |-> FALSE, t |-> SymTenths(x.v[1])]
                 ELSE [nan |-> TRUE, t |-> 0]
      [] x.k = "array" ->
            IF x.v = <<>> THEN [nan |-> FALSE, t |-> 0]
            ELSE IF Len(x.v) = 1 /\ x.v[1].k \in {"number", "string", "null", "undefined"}
                 THEN IF Nullish(x.v[1]) THEN [nan |-> FALSE, t |-> 0]
                      ELSE ToNumber(x.v[1])
                 ELSE [nan |-> TRUE, t |-> 0]
      [] OTHER -> [nan |-> TRUE, t |-> 0]

--------------------------------------------------------------------------
(* OWASP risk rating engine: owasp-risk-engine.ts *)

\* A factor or score that is not a number.  Factors are otherwise in 0..9
\* and scores are otherwise non-negative.
NaN == -1

LikelihoodFields ==
    <<"skillLevel", "motive", "opportunity", "size",
      "easeOfDiscovery", "easeOfExploit", "awareness", "intrusionDetection">>
ImpactFields ==
    <<"confidentiality", "integrity", "availability", "accountability">>

Range(s) == {s[i] : i \in 1..Len(s)}

Max(a, b) == IF a >= b THEN a ELSE b
Min(a, b) == IF a <= b THEN a ELSE b

\* Math.round on tenths: the nearest integer, halves towards +infinity.
MathRound(t) == (t + 5) \div 10

\* Math.max(0, Math.min(9, Math.round(value))): NaN goes through all three.
clamp(value) ==
    LET n == ToNumber(value)
    IN  IF n.nan THEN NaN ELSE Max(0, Min(9, MathRound(n.t)))

getLevelInclusive(score) ==
    IF score # NaN /\ score <= 3000 THEN "LOW"
    ELSE IF score # NaN /\ score <= 6000 THEN "MEDIUM"
    ELSE "HIGH"

\* score is in thousandths; every comparison with NaN is false.
getLevel(score) ==
    IF score # NaN /\ score < 3000 THEN "LOW"
    ELSE IF score # NaN /\ score < 6000 THEN "MEDIUM"
    ELSE "HIGH"

RISK_MATRIX ==
    [HIGH |-> [LOW |-> "Medium", MEDIUM |-> "High", HIGH |-> "Critical"],
     MEDIUM |-> [LOW |-> "Low", MEDIUM |-> "Medium", HIGH |-> "High"],
     LOW |-> [LOW |-> "Note", MEDIUM |-> "Low", HIGH |-> "Medium"]]

getRiskSeverityTransposedNote(impactLevel, likelihoodLevel) ==
    IF impactLevel = "LOW" /\ likelihoodLevel = "MEDIUM" THEN "Note"
    ELSE RISK_MATRIX[impactLevel][likelihoodLevel]

getRiskSeverity(impactLevel, likelihoodLevel) ==
    RISK_MATRIX[impactLevel][likelihoodLevel]

\* if (!raw) return defaults; else each field clamp(raw.f ?? 5)
validateFactors(raw, fields) ==
    IF Falsy(raw) THEN [f \in Range(fields) |-> 5]
    ELSE [f \in Range(fields) |-> clamp(Coalesce(Get(raw, f), Num(5)))]

validateLikelihood(raw) == validateFactors(raw, LikelihoodFields)
validateImpact(raw) == validateFactors(raw, ImpactFields)

RECURSIVE SumFrom(_, _, _)
SumFrom(rec, fields, i) ==
    IF i > Len(fields) THEN 0 ELSE rec[fields[i]] + SumFrom(rec, fields, i + 1)

\* (f1 + ... + fn) / n in thousandths (exact for n = 8 and n = 4), NaN when
\* any term is NaN.
Mean(rec, fields) ==
    IF \E f \in Range(fields) : rec[f] = NaN THEN NaN
    ELSE (SumFrom(rec, fields, 1) * 1000) \div Len(fields)

\* Rounding to the nearest integer, in hundredths.
RoundToInteger(score) == IF score = NaN THEN NaN ELSE ((score + 500) \div 1000) * 100

\* Math.round(score * 100) / 100, in hundredths.
Round2(score) == IF score = NaN THEN NaN ELSE (score + 5) \div 10

calculateRiskRating(rawL, rawI) ==
    LET likelihood == validateLikelihood(rawL)
        impact == validateImpact(rawI)
        likelihoodScore == Mean(likelihood, LikelihoodFields)
        impactScore == Mean(impact, ImpactFields)
        likelihoodLevel == getLevel(likelihoodScore)
        impactLevel == getLevel(impactScore)
    IN  [likelihood |-> likelihood,
         impact |-> impact,
         likelihoodScore |-> Round2(likelihoodScore),
         impactScore |-> Round2(impactScore),
         likelihoodLevel |-> likelihoodLevel,
         impactLevel |-> impactLevel,
         riskSeverity |-> getRiskSeverity(impactLevel, likelihoodLevel),
         overallRiskScore |->
            IF likelihoodScore = NaN \/ impactScore = NaN THEN NaN
            ELSE (likelihoodScore * impactScore + 5000) \div 10000]

\* riskRating.riskSeverity === "Note" ? "Low" : riskRating.riskSeverity
SurfacedSeverity(riskSeverity) ==
    IF riskSeverity = "Note" THEN "Low" ELSE riskSeverity

\* A validated factor record as the object a caller passes back to
\* calculateRiskRating (gt.owaspLikelihood, gt.owaspImpact).
FactorsAsJs(rec, fields) ==
    Obj([i \in 1..Len(fields) |->
            << <<fields[i]>>,
               IF rec[fields[i]] = NaN THEN NaNVal ELSE Num(rec[fields[i]]) >>])

--------------------------------------------------------------------------
(* Inputs of the risk engine *)

\* A factor object holding integer value val[i] for its i-th field.
FactorObj(fields, val) ==
    Obj([i \in 1..Len(fields) |-> << <<fields[i]>>, Num(val[i]) >>])

\* First k fields v + 1, the others v: every sum 0..9n occurs.
Stair(fields, v, k) ==
    FactorObj(fields, [i \in 1..Len(fields) |-> IF i <= k THEN v + 1 ELSE v])

\* Field j holds w, the others v.
Spike(fields, v, j, w) ==
    FactorObj(fields, [i \in 1..Len(fields) |-> IF i = j THEN w ELSE v])

ValidFactorObjs(fields) ==
    {Stair(fields, v, k) : v \in 0..8, k \in 0..Len(fields)}
    \cup {Spike(fields, v, j, w) : v \in 0..9, j \in 1..Len(fields), w \in {0, 9}}

\* Values a factor field can hold in a parsed response or a caller's object.
RawFactorVals ==
    {Null, NaNVal, Str(<<"high">>), Str(<<"7">>), Str(<<>>), NumT(25), NumT(84),
     Num(-1), Num(12), Num(0), Num(9), Bool(TRUE), Obj(<<>>), Arr(<<>>)}

\* All fields 5 except field j, which holds x.
OneOff(fields, j, x) ==
    Obj([i \in 1..Len(fields) |-> << <<fields[i]>>, IF i = j THEN x ELSE Num(5) >>])

\* All fields 5 except field j, which is absent.
Without(fields, j) ==
    Obj([i \in 1..(Len(fields) - 1) |->
            << <<fields[IF i < j THEN i ELSE i + 1]>>, Num(5) >>])

OddFactorObjs(fields) ==
    {Undef, Null, Obj(<<>>), Str(<<"n/a">>), Num(0), Num(7)}
    \cup {OneOff(fields, j, x) : j \in 1..Len(fields), x \in RawFactorVals}
    \cup {Without(fields, j) : j \in 1..Len(fields)}

RiskInputs ==
    (ValidFactorObjs(LikelihoodFields) \X ValidFactorObjs(ImpactFields))
    \cup (OddFactorObjs(LikelihoodFields)
            \X {Stair(ImpactFields, 5, 0), Stair(ImpactFields, 0, 0), Undef})
    \cup ({Stair(LikelihoodFields, 5, 0), Stair(LikelihoodFields, 9, 0), Undef}
            \X OddFactorObjs(ImpactFields))

NotRated == [done |-> FALSE]

RiskIdle ==
    rawLikelihood = Undef /\ rawImpact = Undef /\ rating = NotRated

ParseIdle ==
    /\ respElems = <<>> /\ fenced = FALSE /\ cutAt = 0 /\ text = <<>>
    /\ parsed = [done |-> FALSE]

ScanIdle ==
    scanFiles = <<>> /\ scanNext = 1 /\ findings = <<>> /\ scanReturned = FALSE

\* The tables are empty and nothing has been requested.
PipeIdle ==
    /\ sessions = <<>> /\ threats = <<>> /\ mitigations = <<>> /\ designReviews = <<>>
    /\ runs = <<>> /\ requests = 0 /\ tmpDirs = {}
    /\ persistLog = <<>> /\ patchLog = <<>>

\* walkDir and extractArchitecture have not been called.
WalkIdle ==
    /\ walkTree = <<>> /\ walkStack = <<>> /\ walkFiles = <<>>
    /\ walkListed = 0 /\ walkExamined = 0 /\ walkState = "idle"

ArchIdle ==
    /\ archInput = <<>> /\ archResult = [done |-> FALSE]
    /\ dfdInput = <<>> /\ dfdResult = [done |-> FALSE]

AnalyzerIdle == WalkIdle /\ ArchIdle

InitRisk ==
    /\ \E in \in RiskInputs : rawLikelihood = in[1] /\ rawImpact = in[2]
    /\ rating = NotRated
    /\ ParseIdle
    /\ ScanIdle
    /\ PipeIdle
    /\ AnalyzerIdle

\* A call calculateRiskRating(rawLikelihood, rawImpact).
Rate ==
    /\ ~rating.done
    /\ rating' = [done |-> TRUE, r |-> calculateRiskRating(rawLikelihood, rawImpact)]
    /\ UNCHANGED <<rawLikelihood, rawImpact, parseVars, scanVars, pipeVars, analyzerVars>>

NextRisk == Rate

SpecRisk == InitRisk /\ [][NextRisk]_vars

--------------------------------------------------------------------------
(* Claims about the risk engine *)

\* Every field of the factor object is present and an integer in 0..9.
ValidRaw(raw, fields) ==
    /\ raw.k = "object"
    /\ \A f \in Range(fields) :
          /\ Cardinality(KeyIdx(raw, f)) = 1
          /\ Get(raw, f).k = "number"
          /\ Get(raw, f).v \in {10 * n : n \in 0..9}

ValidRiskInput ==
    ValidRaw(rawLikelihood, LikelihoodFields) /\ ValidRaw(rawImpact, ImpactFields)

\* The sum of the raw integer factors of a valid factor object.
RECURSIVE RawSum(_, _, _)
RawSum(raw, fields, i) ==
    IF i > Len(fields) THEN 0
    ELSE Get(raw, fields[i]).v \div 10 + RawSum(raw, fields, i + 1)

SurfacedSeverities == {"Critical", "High", "Medium", "Low"}

\* C3 as stated: for valid factor inputs the severity calculateRiskRating
\* returns is one of Critical, High, Medium, Low.
C3_SeverityInFour ==
    (rating.done /\ ValidRiskInput) => rating.r.riskSeverity \in SurfacedSeverities

\* C3 amended: for valid factor inputs calculateRiskRating returns one of
\* Critical, High, Medium, Low, Note, and Note exactly when both levels are
\* LOW; the severity surfaced to callers, with Note written as Low, is one of
\* Critical, High, Medium, Low.
C3_SeverityInFiveSurfacedInFour ==
    (rating.done /\ ValidRiskInput) =>
        /\ rating.r.riskSeverity \in SurfacedSeverities \cup {"Note"}
        /\ (rating.r.riskSeverity = "Note") <=>
              (RawSum(rawLikelihood, LikelihoodFields, 1) < 24
                 /\ RawSum(rawImpact, ImpactFields, 1) < 12)
        /\ SurfacedSeverity(rating.r.riskSeverity) \in SurfacedSeverities

\* A rated valid input with both levels LOW, where the engine returns Note.
C3_Witness ==
    /\ rating.done /\ ValidRiskInput
    /\ rating.r.likelihoodLevel = "LOW" /\ rating.r.impactLevel = "LOW"
    /\ rating.r.riskSeverity = "Note"

\* bucket of a mean given as sum over n: LOW below 3, MEDIUM below 6.
BucketOfSum(sum, n) ==
    IF sum < 3 * n THEN "LOW" ELSE IF sum < 6 * n THEN "MEDIUM" ELSE "HIGH"

\* The fixed matrix of the specification, by (impactLevel, likelihoodLevel).
ExpectedSeverity(impactLevel, likelihoodLevel) ==
    CASE impactLevel = "HIGH" /\ likelihoodLevel = "HIGH" -> "Critical"
      [] impactLevel = "HIGH" /\ likelihoodLevel = "MEDIUM" -> "High"
      [] impactLevel = "MEDIUM" /\ likelihoodLevel = "HIGH" -> "High"
      [] impactLevel = "HIGH" /\ likelihoodLevel = "LOW" -> "Medium"
      [] impactLevel = "MEDIUM" /\ likelihoodLevel = "MEDIUM" -> "Medium"
      [] impactLevel = "LOW" /\ likelihoodLevel = "HIGH" -> "Medium"
      [] impactLevel = "MEDIUM" /\ likelihoodLevel = "LOW" -> "Low"
      [] impactLevel = "LOW" /\ likelihoodLevel = "MEDIUM" -> "Low"
      [] impactLevel = "LOW" /\ likelihoodLevel = "LOW" -> "Note"

\* C4: for sub-factors in 0..9 the levels are the buckets of the means of
\* the 8 likelihood and the 4 impact factors (LOW below 3, MEDIUM below 6,
\* HIGH otherwise; 2.99 LOW, 3.00 and 5.99 MEDIUM, 6.00 HIGH) and the severity
\* is the fixed matrix entry for (impactLevel, likelihoodLevel).
C4_LevelsAndMatrix ==
    /\ getLevel(2990) = "LOW" /\ getLevel(3000) = "MEDIUM"
    /\ getLevel(5990) = "MEDIUM" /\ getLevel(6000) = "HIGH"
    /\ (rating.done /\ ValidRiskInput) =>
          /\ rating.r.likelihoodLevel =
                BucketOfSum(RawSum(rawLikelihood, LikelihoodFields, 1), 8)
          /\ rating.r.impactLevel = BucketOfSum(RawSum(rawImpact, ImpactFields, 1), 4)
          /\ rating.r.riskSeverity =
                ExpectedSeverity(rating.r.impactLevel, rating.r.likelihoodLevel)

\* A rated input whose likelihood mean is exactly 3.00 and whose impact mean
\* is exactly 6.00.
C4_Witness ==
    /\ rating.done /\ ValidRiskInput
    /\ RawSum(rawLikelihood, LikelihoodFields, 1) = 24
    /\ RawSum(rawImpact, ImpactFields, 1) = 24
    /\ rating.r.riskSeverity = "High"

\* A raw factor value that is missing or not a number.
MissingOrInvalid(x) ==
    \/ Nullish(x)
    \/ x.k \in {"nan", "object", "array", "boolean"}
    \/ x.k = "string" /\ ~(Len(x.v) = 1 /\ x.v[1] \in NumSyms)

FactorsAsClaimed(raw, out, fields) ==
    \A f \in Range(fields) :
        /\ out[f] \in 0..9
        /\ (Falsy(raw) \/ MissingOrInvalid(Get(raw, f))) => out[f] = 5

\* C5: for every raw factor input each sub-factor produced by
\* validateLikelihood and validateImpact is an integer in 0..9, and a missing
\* or invalid value becomes the neutral midpoint 5.
C5_FactorsClampedOrDefaulted ==
    rating.done =>
        /\ FactorsAsClaimed(rawLikelihood, rating.r.likelihood, LikelihoodFields)
        /\ FactorsAsClaimed(rawImpact, rating.r.impact, ImpactFields)

--------------------------------------------------------------------------
(* JSON text *)

\* A text is a sequence of symbols: each bracket, brace, quote, backslash,
\* comma, colon and fence marker is one symbol, and a run of other characters
\* (a word, a numeric literal, null, true, false) is one symbol.

QUOTE == "\""
BACKSLASH == "\\"
\* The markdown code fence (three backticks).
FENCE == "<fence>"


WS == " "

\* The first position from i on that holds no whitespace.
RECURSIVE SkipWs(_, _)
SkipWs(s, i) == IF i <= Len(s) /\ s[i] = WS THEN SkipWs(s, i + 1) ELSE i

ParseFail == [ok |-> FALSE, val |-> Undef, pos |-> 0]
ParseOk(val, pos) == [ok |-> TRUE, val |-> val, pos |-> pos]

\* The string literal whose opening quote precedes position i: up to the
\* closing quote, a backslash taking the next symbol with it.
RECURSIVE ParseString(_, _, _)
ParseString(s, i, acc) ==
    IF i > Len(s) THEN ParseFail
    ELSE IF s[i] = QUOTE THEN ParseOk(acc, i + 1)
    ELSE IF s[i] = BACKSLASH
         THEN IF i + 1 > Len(s) \/ s[i + 1] \notin {QUOTE, BACKSLASH}
              THEN ParseFail
              ELSE ParseString(s, i + 2, Append(acc, s[i + 1]))
    ELSE ParseString(s, i + 1, Append(acc, s[i]))

\* A value with the whitespace around it; pos is the next symbol after both.
RECURSIVE ParseValue(_, _), ParseElements(_, _, _), ParseMembers(_, _, _)
ParseValue(s, i0) ==
    LET i == SkipWs(s, i0)
        After(r) == IF r.ok THEN ParseOk(r.val, SkipWs(s, r.pos)) ELSE ParseFail
    IN  IF i > Len(s) THEN ParseFail
        ELSE CASE s[i] = "{" ->
                    IF SkipWs(s, i + 1) <= Len(s) /\ s[SkipWs(s, i + 1)] = "}"
                    THEN After(ParseOk(Obj(<<>>), SkipWs(s, i + 1) + 1))
                    ELSE After(ParseMembers(s, i + 1, <<>>))
               [] s[i] = "[" ->
                    IF SkipWs(s, i + 1) <= Len(s) /\ s[SkipWs(s, i + 1)] = "]"
                    THEN After(ParseOk(Arr(<<>>), SkipWs(s, i + 1) + 1))
                    ELSE After(ParseElements(s, i + 1, <<>>))
               [] s[i] = QUOTE ->
                    LET r == ParseString(s, i + 1, <<>>)
                    IN  IF r.ok THEN After(ParseOk(Str(r.val), r.pos)) ELSE ParseFail
               [] s[i] \in NumSyms -> After(ParseOk(NumT(SymTenths(s[i])), i + 1))
               [] s[i] = "null" -> After(ParseOk(Null, i + 1))
               [] s[i] = "true" -> After(ParseOk(Bool(TRUE), i + 1))
               [] s[i] = "false" -> After(ParseOk(Bool(FALSE), i + 1))
               [] OTHER -> ParseFail

ParseElements(s, i, acc) ==
    LET r == ParseValue(s, i)
    IN  IF ~r.ok \/ r.pos > Len(s) THEN ParseFail
        ELSE IF s[r.pos] = "," THEN ParseElements(s, r.pos + 1, Append(acc, r.val))
        ELSE IF s[r.pos] = "]" THEN ParseOk(Arr(Append(acc, r.val)), r.pos + 1)
        ELSE ParseFail

ParseMembers(s, i0, acc) ==
    LET i == SkipWs(s, i0)
    IN  IF i > Len(s) \/ s[i] # QUOTE THEN ParseFail
        ELSE LET key == ParseString(s, i + 1, <<>>)
                 colon == IF key.ok THEN SkipWs(s, key.pos) ELSE 0
             IN  IF ~key.ok \/ colon > Len(s) \/ s[colon] # ":" THEN ParseFail
                 ELSE LET r == ParseValue(s, colon + 1)
                          more == Append(acc, <<key.val, r.val>>)
                      IN  IF ~r.ok \/ r.pos > Len(s) THEN ParseFail
                          ELSE IF s[r.pos] = "," THEN ParseMembers(s, r.pos + 1, more)
                          ELSE IF s[r.pos] = "}" THEN ParseOk(Obj(more), r.pos + 1)
                          ELSE ParseFail

\* JSON.parse(s): one value spanning the whole text, else a SyntaxError
\* (ok = FALSE).
JSONparse(s) ==
    LET r == ParseValue(s, 1)
    IN  IF r.ok /\ r.pos = Len(s) + 1 THEN r ELSE ParseFail

\* The numeric literal of a number given in tenths.
NumSym(t) == CHOOSE sym \in NumSyms : SymTenths(sym) = t

RECURSIVE Concat(_)
Concat(seqs) == IF seqs = <<>> THEN <<>> ELSE Head(seqs) \o Concat(Tail(seqs))

\* parts[1] sep parts[2] sep ... parts[n]
RECURSIVE Join(_, _)
Join(parts, sep) ==
    IF parts = <<>> THEN <<>>
    ELSE IF Len(parts) = 1 THEN parts[1]
    ELSE parts[1] \o sep \o Join(Tail(parts), sep)

\* String(x)
RECURSIVE JsString(_)
JsString(x) ==
    CASE x.k = "string" -> x.v
      [] x.k = "number" -> <<NumSym(x.v)>>
      [] x.k = "nan" -> <<"NaN">>
      [] x.k = "boolean" -> IF x.v THEN <<"true">> ELSE <<"false">>
      [] x.k = "null" -> <<"null">>
      [] x.k = "undefined" -> <<"undefined">>
      [] x.k = "object" -> <<"[", "object Object", "]">>
      [] x.k = "array" ->
            Join([i \in 1..Len(x.v) |->
                    IF Nullish(x.v[i]) THEN <<>> ELSE JsString(x.v[i])], <<",">>)

\* x || d
OrElse(x, d) == IF Falsy(x) THEN d ELSE x

--------------------------------------------------------------------------
(* Response parser and recovery: threat-generator.ts *)

validStride ==
    {"Spoofing", "Tampering", "Repudiation", "Information Disclosure",
     "Denial of Service", "Elevation of Privilege"}

\* validateThreat returned null (its catch block ran).
NullThreat == [kept |-> FALSE]

\* A variant without the fallback: String(x)
StringOfRaw(x, fallback) == JsString(x)

\* String(x || fallback)
StringOr(x, fallback) == JsString(OrElse(x, Str(<<fallback>>)))

\* x ? String(x) : undefined
StringIf(x) == IF Falsy(x) THEN Undef ELSE Str(JsString(x))

\* One entry of raw.mitigations.map(...), for an entry that is not null.
validateMitigation(m) ==
    [description |-> StringOr(Get(m, "description"), "No description"),
     codeFile |-> StringIf(Get(m, "codeFile")),
     codeLine |-> IF Get(m, "codeLine").k \in {"number", "nan"}
                  THEN Get(m, "codeLine") ELSE Undef,
     codeOriginal |-> StringIf(Get(m, "codeOriginal")),
     codeFixed |-> StringIf(Get(m, "codeFixed"))]

\* The record validateThreat builds when nothing throws, given its severity.
ThreatRecord(raw, riskRating, severity) ==
    [kept |-> TRUE,
     title |-> StringOr(Get(raw, "title"), "Untitled Threat"),
     strideCategory |->
        IF Get(raw, "strideCategory").k = "string"
            /\ Len(Get(raw, "strideCategory").v) = 1
            /\ Get(raw, "strideCategory").v[1] \in validStride
        THEN Get(raw, "strideCategory").v[1]
        ELSE "Information Disclosure",
     severity |-> severity,
     threatSource |-> StringOr(Get(raw, "threatSource"), "Unknown actor"),
     prerequisites |-> StringOr(Get(raw, "prerequisites"), "None specified"),
     threatAction |-> StringOr(Get(raw, "threatAction"), "Unknown action"),
     threatImpact |-> StringOr(Get(raw, "threatImpact"), "Unknown impact"),
     impactedAssets |->
        IF IsArray(Get(raw, "impactedAssets"))
        THEN [i \in 1..Len(Get(raw, "impactedAssets").v) |->
                JsString(Get(raw, "impactedAssets").v[i])]
        ELSE << <<"Application">> >>,
     trustBoundary |-> StringOr(Get(raw, "trustBoundary"), "Unknown boundary"),
     assumptions |->
        IF IsArray(Get(raw, "assumptions"))
        THEN [i \in 1..Len(Get(raw, "assumptions").v) |->
                JsString(Get(raw, "assumptions").v[i])]
        ELSE <<>>,
     mitigations |->
        IF IsArray(Get(raw, "mitigations"))
        THEN [i \in 1..Len(Get(raw, "mitigations").v) |->
                validateMitigation(Get(raw, "mitigations").v[i])]
        ELSE <<>>,
     relatedCve |-> StringIf(Get(raw, "relatedCve")),
     owaspLikelihood |-> riskRating.likelihood,
     owaspImpact |-> riskRating.impact]

\* Reading a property of null or undefined throws a TypeError: raw itself
\* (raw.strideCategory) or an entry of raw.mitigations (m.description).
validateThreatThrows(raw) ==
    \/ Nullish(raw)
    \/ /\ IsArray(Get(raw, "mitigations"))
       /\ \E i \in 1..Len(Get(raw, "mitigations").v) :
             Nullish(Get(raw, "mitigations").v[i])

\* Variant: a null element is read with optional chaining and normalised to
\* an all-defaults record instead of being dropped.
validateThreatKeepsNull(raw) ==
    IF validateThreatThrows(raw) /\ ~Nullish(raw) THEN NullThreat
    ELSE LET riskRating ==
                calculateRiskRating(Get(raw, "owaspLikelihood"), Get(raw, "owaspImpact"))
         IN  ThreatRecord(raw, riskRating, SurfacedSeverity(riskRating.riskSeverity))

\* Variant: a valid severity of the response is kept, the engine only fills in.
validateThreatTrustsSeverity(raw) ==
    IF validateThreatThrows(raw) THEN NullThreat
    ELSE LET riskRating ==
                calculateRiskRating(Get(raw, "owaspLikelihood"), Get(raw, "owaspImpact"))
             given == Get(raw, "severity")
         IN  ThreatRecord(raw, riskRating,
                IF given.k = "string" /\ Len(given.v) = 1
                    /\ given.v[1] \in {"Critical", "High", "Medium", "Low"}
                THEN given.v[1]
                ELSE SurfacedSeverity(riskRating.riskSeverity))

validateThreat(raw) ==
    IF validateThreatThrows(raw) THEN NullThreat
    ELSE LET riskRating ==
                calculateRiskRating(Get(raw, "owaspLikelihood"), Get(raw, "owaspImpact"))
         IN  ThreatRecord(raw, riskRating, SurfacedSeverity(riskRating.riskSeverity))

\* parsed.map(validateThreat).filter(Boolean)
RECURSIVE MapValidateFilter(_)
MapValidateFilter(items) ==
    IF items = <<>> THEN <<>>
    ELSE LET t == validateThreat(Head(items))
         IN  (IF t.kept THEN <<t>> ELSE <<>>) \o MapValidateFilter(Tail(items))

\* One iteration of the loop of repairTruncatedJsonArray, on the symbol at
\* 0-based index i; lastEnd is lastCompleteObjectEnd.
RepairStep(st, ch, i) ==
    IF st.escape THEN [st EXCEPT !.escape = FALSE]
    ELSE IF ch = BACKSLASH THEN [st EXCEPT !.escape = TRUE]
    ELSE IF ch = QUOTE THEN [st EXCEPT !.inString = ~st.inString]
    ELSE IF st.inString THEN st
    ELSE LET opened == IF ch \in {"[", "{"} THEN st.depth + 1 ELSE st.depth
             closed == IF ch \in {"]", "}"} THEN opened - 1 ELSE opened
         IN  [st EXCEPT !.depth = closed,
                        !.lastEnd = IF ch = "}" /\ closed = 1 THEN i ELSE st.lastEnd]

\* The iterations for the symbols at positions lo..hi (1-based), in order:
\* the left half first (the test has it evaluated before the right half
\* starts), then the right half from the state the left half ended in.
RECURSIVE RepairScan(_, _, _, _)
RepairScan(s, lo, hi, st) ==
    IF lo > hi THEN st
    ELSE IF lo = hi THEN RepairStep(st, s[lo], lo - 1)
    ELSE LET mid == (lo + hi) \div 2
             left == RepairScan(s, lo, mid, st)
         IN  IF left.depth = left.depth THEN RepairScan(s, mid + 1, hi, left) ELSE st

\* s.substring(0, n): the first n symbols.
Prefix(s, n) == SubSeq(s, 1, Min(Max(n, 0), Len(s)))

\* Variant: with no complete object the repaired text is the empty array.
repairYieldsEmptyArray(jsonStr) ==
    LET lastCompleteObjectEnd ==
            RepairScan(jsonStr, 1, Len(jsonStr),
                       [depth |-> 0, inString |-> FALSE, escape |-> FALSE,
                        lastEnd |-> -1]).lastEnd
    IN  IF lastCompleteObjectEnd > 0
        THEN [ok |-> TRUE, val |-> Prefix(jsonStr, lastCompleteObjectEnd + 1) \o <<"]">>]
        ELSE [ok |-> TRUE, val |-> <<"[", "]">>]

\* The repaired text, or a throw (ok = FALSE).
repairTruncatedJsonArray(jsonStr) ==
    LET lastCompleteObjectEnd ==
            RepairScan(jsonStr, 1, Len(jsonStr),
                       [depth |-> 0, inString |-> FALSE, escape |-> FALSE,
                        lastEnd |-> -1]).lastEnd
    IN  IF lastCompleteObjectEnd > 0
        THEN [ok |-> TRUE, val |-> Prefix(jsonStr, lastCompleteObjectEnd + 1) \o <<"]">>]
        ELSE [ok |-> FALSE, val |-> <<>>]

\* s.trim()
RECURSIVE TrimEnd(_)
TrimEnd(s) ==
    IF s # <<>> /\ s[Len(s)] = WS THEN TrimEnd(SubSeq(s, 1, Len(s) - 1)) ELSE s
Trim(s) == TrimEnd(SubSeq(s, SkipWs(s, 1), Len(s)))

\* s.indexOf(sym) and s.lastIndexOf(sym), 0-based, -1 when absent.
Positions(s, sym) == {i \in 1..Len(s) : s[i] = sym}
IndexOf(s, sym) ==
    IF Positions(s, sym) = {} THEN -1
    ELSE (CHOOSE i \in Positions(s, sym) : \A j \in Positions(s, sym) : i <= j) - 1
LastIndexOf(s, sym) ==
    IF Positions(s, sym) = {} THEN -1
    ELSE (CHOOSE i \in Positions(s, sym) : \A j \in Positions(s, sym) : j <= i) - 1

\* s.substring(a, b), 0-based: the arguments are swapped when a > b.
Substring(s, a, b) == SubSeq(s, Min(a, b) + 1, Min(Max(a, b), Len(s)))

\* jsonStr.match(/FENCE(?:json)?\s*([\s\S]*?)FENCE/): the text between the
\* first fence (with its optional json tag and whitespace) and the next one;
\* no match without a second fence.
FenceMatch(s) ==
    LET open == IndexOf(s, FENCE) + 1
        afterTag == IF open + 1 <= Len(s) /\ s[open + 1] = "json"
                    THEN open + 2 ELSE open + 1
        from == SkipWs(s, afterTag)
        rest == SubSeq(s, from, Len(s))
        close == IndexOf(rest, FENCE)
    IN  IF open = 0 \/ close = -1 THEN [ok |-> FALSE, val |-> <<>>]
        ELSE [ok |-> TRUE, val |-> Prefix(rest, close)]

Threw == [ok |-> FALSE, threats |-> <<>>]

\* The text between the fences when the fence pattern matches, trimmed.
Unfence(trimmed, jsonMatch) ==
    IF jsonMatch.ok THEN Trim(jsonMatch.val) ELSE trimmed

\* From the first "[" to the last "]"; from the first "[" to the end when
\* there is no "]"; the whole text when there is no "[".
ExtractArray(unfenced, arrayStart, arrayEnd) ==
    IF arrayStart # -1 /\ arrayEnd # -1
    THEN Substring(unfenced, arrayStart, arrayEnd + 1)
    ELSE IF arrayStart # -1 THEN SubSeq(unfenced, arrayStart + 1, Len(unfenced))
    ELSE unfenced

\* The catch block: JSON.parse of the repaired text, when the repair did not
\* throw.
ParseRepaired(repaired, second) ==
    IF repaired.ok /\ second.ok /\ IsArray(second.val)
    THEN [ok |-> TRUE, threats |-> MapValidateFilter(second.val.v)]
    ELSE Threw

\* The try block on the outcome of JSON.parse(jsonStr), and its catch.
ParseOrRepair(first, repaired) ==
    IF first.ok /\ IsArray(first.val)
    THEN [ok |-> TRUE, threats |-> MapValidateFilter(first.val.v)]
    ELSE ParseRepaired(repaired, JSONparse(repaired.val))

ParseJsonStr(jsonStr) ==
    ParseOrRepair(JSONparse(jsonStr), repairTruncatedJsonArray(jsonStr))

ParseUnfenced(unfenced) ==
    ParseJsonStr(ExtractArray(unfenced, IndexOf(unfenced, "["),
                              LastIndexOf(unfenced, "]")))

ParseTrimmed(trimmed) == ParseUnfenced(Unfence(trimmed, FenceMatch(trimmed)))

parseThreatsResponse(responseText) == ParseTrimmed(Trim(responseText))

--------------------------------------------------------------------------
(* Inputs of the response parser: what the upstream model writes *)

\* A string literal: quotes and backslashes inside it are escaped.
StringLiteral(content) ==
    <<QUOTE>>
    \o Concat([i \in 1..Len(content) |->
                 IF content[i] \in {QUOTE, BACKSLASH}
                 THEN <<BACKSLASH, content[i]>> ELSE <<content[i]>>])
    \o <<QUOTE>>

\* The JSON text of a value.
RECURSIVE Serialize(_)
Serialize(x) ==
    CASE x.k = "object" ->
            <<"{">>
            \o Join([i \in 1..Len(x.v) |->
                       StringLiteral(x.v[i][1]) \o <<":">> \o Serialize(x.v[i][2])],
                    <<",">>)
            \o <<"}">>
      [] x.k = "array" ->
            <<"[">> \o Join([i \in 1..Len(x.v) |-> Serialize(x.v[i])], <<",">>) \o <<"]">>
      [] x.k = "string" -> StringLiteral(x.v)
      [] x.k = "number" -> <<NumSym(x.v)>>
      [] x.k = "boolean" -> IF x.v THEN <<"true">> ELSE <<"false">>
      [] OTHER -> <<"null">>

\* An object with the given keys and values.
Rec(keys, vals) == Obj([i \in 1..Len(keys) |-> << <<keys[i]>>, vals[i] >>])

\* A factor object in which the first n of the fields hold v.
Factors(fields, n, v) == Obj([i \in 1..n |-> << <<fields[i]>>, Num(v) >>])

\* No nested value, but brackets, braces, a quote and a backslash inside a
\* string; the factors default to 5: Medium, whatever severity says.
QuotedThreat ==
    Rec(<<"title", "severity">>,
        <<Str(<<"a", "]", QUOTE, "}", BACKSLASH, "[", "{">>), Str(<<"Critical">>)>>)
\* A nested array of objects and two nested objects; the other factors
\* default to 5, so both means are exactly 6: HIGH and HIGH, Critical.
HighThreat ==
    Rec(<<"severity", "mitigations", "owaspLikelihood", "owaspImpact">>,
        <<Str(<<"Low">>),
          Arr(<<Rec(<<"description", "codeLine">>, <<Str(<<"fix">>), Num(7)>>)>>),
          Factors(LikelihoodFields, 2, 9), Factors(ImpactFields, 1, 9)>>)
\* A nested array with fields after it; both means are 2.5: LOW and LOW, Note.
NoteThreat ==
    Rec(<<"impactedAssets", "severity", "owaspLikelihood", "owaspImpact">>,
        <<Arr(<<Str(<<"db">>), Num(7)>>), Str(<<"High">>),
          Factors(LikelihoodFields, 4, 0), Factors(ImpactFields, 2, 0)>>)
\* An entry of mitigations is null: validateThreat throws.
NullMitigationThreat ==
    Rec(<<"title", "mitigations">>, <<Str(<<"T3">>), Arr(<<Null>>)>>)

ElementShapes == {QuotedThreat, HighThreat, NoteThreat, NullMitigationThreat, Null}

\* The most elements a response holds.
MaxElements == 2

RECURSIVE SeqsUpTo(_, _)
SeqsUpTo(S, n) ==
    IF n = 0 THEN {<<>>}
    ELSE SeqsUpTo(S, n - 1)
         \cup {Append(q, x) : q \in {r \in SeqsUpTo(S, n - 1) : Len(r) = n - 1}, x \in S}

Responses == SeqsUpTo(ElementShapes, MaxElements)

\* The array text of the elements, inside a fence or not.
FullText(elems, inFence) ==
    IF inFence THEN <<FENCE, "json", WS>> \o Serialize(Arr(elems)) \o <<WS, FENCE>>
    ELSE Serialize(Arr(elems))

InitParse ==
    /\ RiskIdle
    /\ ScanIdle
    /\ PipeIdle
    /\ AnalyzerIdle
    /\ respElems \in Responses
    /\ fenced \in BOOLEAN
    /\ cutAt \in 0..Len(FullText(respElems, fenced))
    /\ text = Prefix(FullText(respElems, fenced), cutAt)
    /\ parsed = [done |-> FALSE]

\* A call parseThreatsResponse(text).
ParseResponse ==
    /\ ~parsed.done
    /\ parsed' = [done |-> TRUE, r |-> parseThreatsResponse(text)]
    /\ UNCHANGED <<riskVars, respElems, fenced, cutAt, text, scanVars, pipeVars, analyzerVars>>

NextParse == ParseResponse

SpecParse == InitParse /\ [][NextParse]_vars

--------------------------------------------------------------------------
(* Properties of the response parser *)

\* Symbols of the full text up to and including the n-th element (n = 0: up
\* to and including the opening bracket).
RECURSIVE ElemEnd(_, _, _)
ElemEnd(elems, inFence, n) ==
    IF n = 0 THEN (IF inFence THEN 4 ELSE 1)
    ELSE ElemEnd(elems, inFence, n - 1) + (IF n > 1 THEN 1 ELSE 0)
            + Len(Serialize(elems[n]))

\* The cut fell before the closing bracket of the array.
Truncated == cutAt <= ElemEnd(respElems, fenced, Len(respElems))

\* The number of elements that are complete in the text.
CompleteElements ==
    IF cutAt < ElemEnd(respElems, fenced, 0) THEN 0
    ELSE CHOOSE n \in 0..Len(respElems) :
            /\ ElemEnd(respElems, fenced, n) <= cutAt
            /\ n < Len(respElems) => cutAt < ElemEnd(respElems, fenced, n + 1)

\* The records of the elements that validateThreat keeps, in order.
Normalized(elems) ==
    LET kept == SelectSeq(elems, LAMBDA e : ~validateThreatThrows(e))
    IN  [i \in 1..Len(kept) |-> validateThreat(kept[i])]

\* C6: a well-formed array text cut after its N-th complete element and
\* before the (N+1)-th, N >= 1, all elements objects (threat records, with
\* their nested arrays and objects), parses to the records of exactly the
\* first N elements.
C6_TruncatedYieldsFirstN ==
    (/\ parsed.done
     /\ Truncated
     /\ CompleteElements >= 1
     /\ \A i \in 1..Len(respElems) : respElems[i].k = "object")
    => /\ parsed.r.ok
       /\ parsed.r.threats = Normalized(SubSeq(respElems, 1, CompleteElements))

\* The response was cut before its first element was complete.
CutBeforeFirstElement ==
    /\ Truncated
    /\ CompleteElements = 0

\* C7 as stated: a response cut before its first complete element parses to
\* the empty threat list.
C7_CutBeforeFirstYieldsEmpty ==
    (parsed.done /\ CutBeforeFirstElement)
    => (parsed.r.ok /\ parsed.r.threats = <<>>)

\* C7 amended: a response cut before its first complete element makes
\* parseThreatsResponse throw; no list is returned.
C7_CutBeforeFirstThrows ==
    (parsed.done /\ CutBeforeFirstElement) => ~parsed.r.ok

\* C7 witness: the cut fell inside the first element, after a closing
\* bracket of a nested array, and the call threw.
C7_Witness ==
    /\ parsed.done
    /\ CutBeforeFirstElement
    /\ cutAt > ElemEnd(respElems, fenced, 0)
    /\ LastIndexOf(text, "]") # -1
    /\ ~parsed.r.ok

\* The elements of the bounded family on which validateThreat throws.
ThrowingShapes == {Null, NullMitigationThreat}

\* C8: of the k elements of a complete array the m that make validateThreat
\* throw are dropped; the call does not throw and returns the records of the
\* other k - m in their order.
C8_ThrowingElementsDropped ==
    (parsed.done /\ ~Truncated)
    => LET others == SelectSeq(respElems, LAMBDA e : e \notin ThrowingShapes)
       IN  /\ parsed.r.ok
           /\ Len(parsed.r.threats) = Len(others)
           /\ \A i \in 1..Len(others) : parsed.r.threats[i] = validateThreat(others[i])
           /\ \A i \in 1..Len(others) : parsed.r.threats[i].kept

\* C8 witness: a complete array with a throwing element before a kept one.
C8_Witness ==
    /\ parsed.done
    /\ ~Truncated
    /\ Len(respElems) = 2
    /\ respElems[1] \in ThrowingShapes
    /\ respElems[2] \notin ThrowingShapes
    /\ parsed.r.ok
    /\ Len(parsed.r.threats) = 1

\* The element with its severity field, if it has one, set to sev.
WithSeverity(e, sev) ==
    IF e.k # "object" THEN e
    ELSE Obj([i \in 1..Len(e.v) |->
                IF e.v[i][1] = <<"severity">> THEN <<e.v[i][1], Str(<<sev>>)>>
                ELSE e.v[i]])

SuggestedSeverities == {"Critical", "Low"}

\* The response that differs only in its severity fields, cut at the same place.
SeverityVariant(sev) ==
    Prefix(FullText([i \in 1..Len(respElems) |-> WithSeverity(respElems[i], sev)],
                    fenced),
           cutAt)

\* C9: a response that differs only in the severity fields parses to the
\* same outcome and the same records, and the severity of every record is
\* the engine's result for the record's factors (Note as Low).
C9_SeverityNotTrusted ==
    parsed.done
    => /\ \A sev \in SuggestedSeverities :
            parseThreatsResponse(SeverityVariant(sev)) = parsed.r
       /\ \A i \in 1..Len(parsed.r.threats) :
            parsed.r.threats[i].severity =
                SurfacedSeverity(
                    calculateRiskRating(
                        FactorsAsJs(parsed.r.threats[i].owaspLikelihood, LikelihoodFields),
                        FactorsAsJs(parsed.r.threats[i].owaspImpact, ImpactFields)
                    ).riskSeverity)

\* C9 witness: the response said Low and Critical, the records say Critical
\* (HIGH and HIGH factors) and Medium (default factors).
C9_Witness ==
    /\ parsed.done
    /\ respElems = <<HighThreat, QuotedThreat>>
    /\ parsed.r.ok
    /\ Len(parsed.r.threats) = 2
    /\ parsed.r.threats[1].severity = "Critical"
    /\ parsed.r.threats[2].severity = "Medium"

--------------------------------------------------------------------------
(* Pattern scanner: repo-analyzer.ts *)

\* The detectors, in the order scanSecurity tries them, with their severity.
SECURITY_PATTERNS ==
    << [name |-> "hardcoded_secret", severity |-> "Critical"],
       [name |-> "sql_concatenation", severity |-> "Critical"],
       [name |-> "eval_usage", severity |-> "High"],
       [name |-> "missing_https", severity |-> "Medium"],
       [name |-> "command_injection", severity |-> "High"],
       [name |-> "cors_wildcard", severity |-> "Medium"],
       [name |-> "debug_enabled", severity |-> "Low"],
       [name |-> "no_auth_check", severity |-> "High"],
       [name |-> "insecure_deserialization", severity |-> "High"],
       [name |-> "weak_crypto", severity |-> "Medium"] >>

codeExtensions ==
    {".ts", ".tsx", ".js", ".jsx", ".py", ".go", ".rs", ".java",
     ".cs", ".c", ".cpp", ".rb", ".php", ".yaml", ".yml", ".json",
     ".env", ".cfg", ".conf", ".ini", ".toml"}

\* findings.filter((f) => f.file === relFile).length >= 10
FindingsCap == 10

\* findings.filter((f) => f.file === relFile).length
FindingsOf(fs, relFile) == Cardinality({i \in 1..Len(fs) : fs[i].file = relFile})

\* Variant: the cap is tested with > instead of >=.
RECURSIVE ExecLoopCapAbove(_, _, _, _)
ExecLoopCapAbove(fs, file, p, j) ==
    IF j > file.matches[p] THEN fs
    ELSE LET pushed == Append(fs, [file |-> file.path,
                                   pattern |-> SECURITY_PATTERNS[p].name,
                                   match |-> j,
                                   severity |-> SECURITY_PATTERNS[p].severity])
         IN  IF FindingsOf(pushed, file.path) > FindingsCap THEN pushed
             ELSE ExecLoopCapAbove(pushed, file, p, j + 1)

\* The while loop of one detector from its j-th match on: exec returns the
\* matches of the global pattern one after the other, then null; the break
\* leaves this loop only.
RECURSIVE ExecLoop(_, _, _, _)
ExecLoop(fs, file, p, j) ==
    IF j > file.matches[p] THEN fs
    ELSE LET pushed == Append(fs, [file |-> file.path,
                                   pattern |-> SECURITY_PATTERNS[p].name,
                                   match |-> j,
                                   severity |-> SECURITY_PATTERNS[p].severity])
         IN  IF FindingsOf(pushed, file.path) >= FindingsCap THEN pushed
             ELSE ExecLoop(pushed, file, p, j + 1)

\* for (const pattern of SECURITY_PATTERNS), from the p-th detector on.
RECURSIVE PatternLoop(_, _, _)
PatternLoop(fs, file, p) ==
    IF p > Len(SECURITY_PATTERNS) THEN fs
    ELSE PatternLoop(ExecLoop(fs, file, p, 1), file, p + 1)

\* One iteration of for (const relFile of files): a file that is no code
\* file is passed over, one that cannot be read throws before any finding.
ScanOneFile(fs, file) ==
    IF file.ext \notin codeExtensions /\ ~file.envInName THEN fs
    ELSE IF ~file.readable THEN fs
    ELSE PatternLoop(fs, file, 1)

--------------------------------------------------------------------------
(* Inputs of the scanner: the file tree of a cloned repository *)

\* The most files of a tree and the most matches of one detector in a file.
MaxFiles == 2
MaxMatches == 12

Detectors == 1..Len(SECURITY_PATTERNS)

\* Match counts of a file, per detector.
Only(p, n) == [q \in Detectors |-> IF q = p THEN n ELSE 0]
Two(n, m) == [q \in Detectors |-> IF q = 1 THEN n ELSE IF q = 2 THEN m ELSE 0]
Every(n) == [q \in Detectors |-> n]

MatchProfiles ==
    {Only(1, n) : n \in 0..MaxMatches}
    \cup {Only(Len(SECURITY_PATTERNS), MaxMatches)}
    \cup {Two(n, m) : n \in {3, FindingsCap - 1, FindingsCap}, m \in {1, 2, MaxMatches}}
    \cup {Every(1), Every(MaxMatches)}

FileShape(ext, envInName, readable, matches) ==
    [ext |-> ext, envInName |-> envInName, readable |-> readable, matches |-> matches]

FileShapes ==
    {FileShape(".ts", FALSE, TRUE, mp) : mp \in MatchProfiles}
    \cup {FileShape(".md", FALSE, TRUE, Every(MaxMatches)),
          FileShape(".example", TRUE, TRUE, Only(1, MaxMatches)),
          FileShape(".py", FALSE, FALSE, Every(1))}

\* The i-th path of the tree (walkDir lists each path once).
FileAt(i, shape) ==
    [path |-> i, ext |-> shape.ext, envInName |-> shape.envInName,
     readable |-> shape.readable, matches |-> shape.matches]

FileTrees ==
    {[i \in 1..Len(q) |-> FileAt(i, q[i])] : q \in SeqsUpTo(FileShapes, MaxFiles)}

InitScan ==
    /\ RiskIdle
    /\ ParseIdle
    /\ PipeIdle
    /\ AnalyzerIdle
    /\ scanFiles \in FileTrees
    /\ scanNext = 1
    /\ findings = <<>>
    /\ scanReturned = FALSE

\* One iteration of the loop over files.
ScanFile ==
    /\ ~scanReturned
    /\ scanNext <= Len(scanFiles)
    /\ findings' = ScanOneFile(findings, scanFiles[scanNext])
    /\ scanNext' = scanNext + 1
    /\ UNCHANGED <<riskVars, parseVars, pipeVars, analyzerVars, scanFiles, scanReturned>>

\* return findings
ScanReturn ==
    /\ ~scanReturned
    /\ scanNext > Len(scanFiles)
    /\ scanReturned' = TRUE
    /\ UNCHANGED <<riskVars, parseVars, pipeVars, analyzerVars, scanFiles, scanNext, findings>>

NextScan == ScanFile \/ ScanReturn

SpecScan == InitScan /\ [][NextScan]_vars

--------------------------------------------------------------------------
(* Properties of the scanner *)

\* C10: when scanSecurity has returned, no file has more than 10 findings,
\* counted over all detectors together.
C10_AtMostTenPerFile ==
    scanReturned
    => \A i \in 1..Len(scanFiles) : FindingsOf(findings, scanFiles[i].path) <= FindingsCap

\* The findings of detector p in a file, and those of the detectors
\* registered before p.
PairFindings(fs, relFile, p) ==
    Cardinality({i \in 1..Len(fs) :
                    fs[i].file = relFile /\ fs[i].pattern = SECURITY_PATTERNS[p].name})
EarlierFindings(fs, relFile, p) ==
    Cardinality({i \in 1..Len(fs) :
                    /\ fs[i].file = relFile
                    /\ \E q \in 1..(p - 1) : fs[i].pattern = SECURITY_PATTERNS[q].name})

\* The file is scanned: a code file that can be read.
Scanned(file) ==
    (file.ext \in codeExtensions \/ file.envInName) /\ file.readable

\* C11 as stated: when scanSecurity has returned, a detector with more than
\* 10 matches in a scanned file has exactly 10 findings for that file,
\* whatever the other detectors match there.
C11_ExactlyTenPerPair ==
    scanReturned
    => \A i \in 1..Len(scanFiles), p \in Detectors :
          Scanned(scanFiles[i]) /\ scanFiles[i].matches[p] > FindingsCap
          => PairFindings(findings, scanFiles[i].path, p) = FindingsCap

\* C11 as amended: a detector with more than 10 matches in a scanned file
\* has exactly 10 findings for that file when no detector registered before
\* it matches there, and exactly 10 - k when the earlier detectors left
\* k < 10 findings for the file, whatever the later detectors match.
C11_TenMinusEarlierPerPair ==
    scanReturned
    => \A i \in 1..Len(scanFiles), p \in Detectors :
          Scanned(scanFiles[i]) /\ scanFiles[i].matches[p] > FindingsCap
          => /\ (\A q \in 1..(p - 1) : scanFiles[i].matches[q] = 0)
                => PairFindings(findings, scanFiles[i].path, p) = FindingsCap
             /\ EarlierFindings(findings, scanFiles[i].path, p) < FindingsCap
                => PairFindings(findings, scanFiles[i].path, p)
                        = FindingsCap - EarlierFindings(findings, scanFiles[i].path, p)

\* C11: a scan returned with one file where the first detector alone has
\* more than 10 matches, and one where 3 findings of the first detector
\* precede a second detector with more than 10 matches.
C11_Witness ==
    /\ scanReturned
    /\ \E i \in 1..Len(scanFiles) :
          /\ Scanned(scanFiles[i])
          /\ scanFiles[i].matches = Only(1, MaxMatches)
          /\ PairFindings(findings, scanFiles[i].path, 1) = FindingsCap
    /\ \E i \in 1..Len(scanFiles) :
          /\ Scanned(scanFiles[i])
          /\ scanFiles[i].matches = Two(3, MaxMatches)
          /\ PairFindings(findings, scanFiles[i].path, 2) = FindingsCap - 3

--------------------------------------------------------------------------
(* File walk: walkDir of repo-analyzer.ts *)

\* A name is its segments between dots: node_modules is <<"node_modules">>,
\* .env is <<"", "env">>, app.min.js is <<"app", "min", "js">>. A number n > 0
\* stands for the digits at the end of the first segment (f17.ts).
Name(n, segs) == [n |-> n, segs |-> segs]

MAX_FILE_SIZE == 50 * 1024
MAX_FILES == 500

\* SKIP_DIRS, each entry as a name.
SKIP_DIRS ==
    {Name(0, <<d>>) : d \in {"node_modules", "__pycache__", "dist", "build", "venv",
                             "vendor", "coverage", "target", "bin", "obj"}}
    \cup {Name(0, <<"", d>>) : d \in {"git", "next", "venv", "terraform", "cache",
                                      "idea", "vscode"}}

\* SKIP_EXTENSIONS, each by its segments.
SKIP_EXTENSIONS ==
    {<<"png">>, <<"jpg">>, <<"jpeg">>, <<"gif">>, <<"svg">>, <<"ico">>, <<"woff">>,
     <<"woff2">>, <<"ttf">>, <<"eot">>, <<"mp3">>, <<"mp4">>, <<"zip">>, <<"tar">>,
     <<"gz">>, <<"pdf">>, <<"lock">>, <<"min", "js">>, <<"min", "css">>, <<"map">>}

\* toLowerCase on a segment.
ToLowerCase(seg) ==
    CASE seg = "PNG" -> "png"
      [] seg = "JS" -> "js"
      [] OTHER -> seg

\* path.extname(name): from the last dot on, without the dot here; empty
\* when there is no dot or the only dot starts the name.
extname(name) ==
    IF Len(name.segs) = 1 THEN <<>>
    ELSE IF Len(name.segs) = 2 /\ name.segs[1] = "" /\ name.n = 0 THEN <<>>
    ELSE <<name.segs[Len(name.segs)]>>

\* entry.name.startsWith(".")
StartsWithDot(name) == Len(name.segs) > 1 /\ name.segs[1] = "" /\ name.n = 0

DotEnv == Name(0, <<"", "env">>)
DotEnvExample == Name(0, <<"", "env", "example">>)

\* An entry of a directory: kind is what the Dirent reports (file, dir or
\* link), target what a link points to, size what stat reports after
\* following links, statOk whether statSync succeeds, listOk whether
\* readdirSync succeeds on it.
File(name, size) ==
    [name |-> name, kind |-> "file", target |-> "file", size |-> size,
     statOk |-> TRUE, listOk |-> FALSE, entries |-> <<>>]
Dir(name, entries) ==
    [name |-> name, kind |-> "dir", target |-> "dir", size |-> 4096,
     statOk |-> TRUE, listOk |-> TRUE, entries |-> entries]
Link(name, target, size, statOk) ==
    [name |-> name, kind |-> "link", target |-> target, size |-> size,
     statOk |-> statOk, listOk |-> FALSE, entries |-> <<>>]

\* A call walkDir(dir, rootDir, files) past its readdirSync: the entries of
\* dir, the index of the next one and the path of dir relative to the root.
Frame(entries, rel) == [entries |-> entries, idx |-> 1, rel |-> rel]

\* The entry the top frame is at.
Current == walkStack[Len(walkStack)].entries[walkStack[Len(walkStack)].idx]

\* The stack with the top frame moved to its next entry.
Advanced == [walkStack EXCEPT ![Len(walkStack)].idx = @ + 1]

\* The first two tests of the loop body pass the entry over.
SkippedByName(name) ==
    \/ name \in SKIP_DIRS
    \/ StartsWithDot(name) /\ name # DotEnv /\ name # DotEnvExample

\* The file branch pushes the path.
Collected(entry) ==
    /\ <<ToLowerCase(extname(entry.name)[1])>> \notin SKIP_EXTENSIONS
    /\ entry.statOk
    /\ entry.size <= MAX_FILE_SIZE

\* Whether the file branch pushes the path; a name without extension is
\* never in SKIP_EXTENSIONS.
Pushes(entry) ==
    IF extname(entry.name) = <<>>
    THEN entry.statOk /\ entry.size <= MAX_FILE_SIZE
    ELSE Collected(entry)

\* The walk is called on the root: readdirSync lists it.
WalkEnter ==
    /\ walkState = "called"
    /\ walkState' = "walking"
    /\ walkListed' = walkListed + 1
    /\ walkStack' = <<Frame(walkTree, <<>>)>>
    /\ UNCHANGED <<riskVars, parseVars, scanVars, pipeVars, archVars,
                   walkTree, walkFiles, walkExamined>>

\* The loop body on the next entry of the innermost call, the cap not
\* reached: the entry is passed over, walked into (the nested call lists it,
\* or readdirSync throws and the walk ends with that error), or tested as a
\* file and pushed.
WalkEntry ==
    /\ walkState = "walking"
    /\ walkStack[Len(walkStack)].idx <= Len(walkStack[Len(walkStack)].entries)
    /\ Len(walkFiles) < MAX_FILES
    /\ walkExamined' = walkExamined + 1
    /\ IF SkippedByName(Current.name)
       THEN /\ walkStack' = Advanced
            /\ UNCHANGED <<walkFiles, walkListed, walkState>>
       ELSE IF Current.kind = "dir"
       THEN IF Current.listOk
            THEN /\ walkStack' =
                        Append(Advanced,
                               Frame(Current.entries,
                                     Append(walkStack[Len(walkStack)].rel, Current.name)))
                 /\ walkListed' = walkListed + 1
                 /\ UNCHANGED <<walkFiles, walkState>>
            ELSE /\ walkStack' = <<>>
                 /\ walkState' = "threw"
                 /\ UNCHANGED <<walkFiles, walkListed>>
       ELSE /\ walkStack' = Advanced
            /\ walkFiles' =
                    IF Pushes(Current)
                    THEN Append(walkFiles,
                                Append(walkStack[Len(walkStack)].rel, Current.name))
                    ELSE walkFiles
            /\ UNCHANGED <<walkListed, walkState>>
    /\ UNCHANGED <<riskVars, parseVars, scanVars, pipeVars, archVars, walkTree>>

\* The innermost call returns.
Returned ==
    /\ walkStack' = SubSeq(walkStack, 1, Len(walkStack) - 1)
    /\ walkState' = IF Len(walkStack) = 1 THEN "returned" ELSE "walking"
    /\ UNCHANGED <<riskVars, parseVars, scanVars, pipeVars, archVars,
                   walkTree, walkFiles, walkListed, walkExamined>>

\* The loop finds the cap reached: break, and the call returns.
WalkBreak ==
    /\ walkState = "walking"
    /\ walkStack[Len(walkStack)].idx <= Len(walkStack[Len(walkStack)].entries)
    /\ Len(walkFiles) >= MAX_FILES
    /\ Returned

\* The loop is through the entries of its directory: the call returns.
WalkLeave ==
    /\ walkState = "walking"
    /\ walkStack[Len(walkStack)].idx > Len(walkStack[Len(walkStack)].entries)
    /\ Returned

--------------------------------------------------------------------------
(* Inputs of the file walk: cloned repositories *)

\* The number of files of a small directory.
FewFiles == 3

\* n source files f1.ts .. fn.ts of 1 KB.
Fillers(n) == [i \in 1..n |-> File(Name(i, <<"f", "ts">>), 1024)]

\* A repository: excluded directories and names, files at and above the
\* size limit, links, a minified bundle, then src with k files and src/lib
\* with m files, n files at the root, and a directory and a file after
\* them; vendor is unreadable or not.
Tree(k, m, n, listOk) ==
    << Dir(Name(0, <<"node_modules">>), Fillers(1)),
       Dir(Name(0, <<"", "git">>), <<File(Name(0, <<"HEAD">>), 20)>>),
       File(DotEnv, 100),
       File(DotEnvExample, 100),
       File(Name(0, <<"", "gitignore">>), 100),
       File(Name(0, <<"build">>), 100),
       File(Name(0, <<"logo", "PNG">>), 2048),
       File(Name(0, <<"yarn", "lock">>), 2048),
       File(Name(0, <<"big", "ts">>), MAX_FILE_SIZE + 1),
       File(Name(0, <<"edge", "ts">>), MAX_FILE_SIZE),
       Link(Name(0, <<"broken">>), "file", 0, FALSE),
       Link(Name(0, <<"current", "ts">>), "file", 1024, TRUE),
       Dir(Name(0, <<"src">>),
           Fillers(k)
           \o <<Dir(Name(0, <<"lib">>), Fillers(m)), File(Name(0, <<"index", "ts">>), 1024)>>),
       [Dir(Name(0, <<"private">>), Fillers(1)) EXCEPT !.listOk = listOk] >>
    \o Fillers(n)
    \o << Dir(Name(0, <<"late">>), Fillers(FewFiles)),
          File(Name(0, <<"last", "ts">>), 1024) >>

\* The same with a minified bundle and a link to a directory at the root.
TreeWithBundle(k, m, n) ==
    << File(Name(0, <<"app", "min", "js">>), 4096),
       Link(Name(0, <<"docs">>), "dir", 4096, TRUE) >>
    \o Tree(k, m, n, TRUE)

WalkTrees ==
    {Tree(FewFiles, FewFiles, FewFiles, TRUE),
     Tree(FewFiles, FewFiles, FewFiles, FALSE),
     Tree(FewFiles, MAX_FILES, FewFiles, TRUE),
     Tree(MAX_FILES - (FewFiles + 4), FewFiles, FewFiles, TRUE),
     Tree(FewFiles, FewFiles, MAX_FILES, TRUE),
     Tree(FewFiles, FewFiles, MAX_FILES - (2 * FewFiles + 4), TRUE),
     TreeWithBundle(FewFiles, FewFiles, FewFiles),
     TreeWithBundle(FewFiles, MAX_FILES, FewFiles)}

InitWalk ==
    /\ RiskIdle
    /\ ParseIdle
    /\ ScanIdle
    /\ PipeIdle
    /\ ArchIdle
    /\ walkTree \in WalkTrees
    /\ walkStack = <<>>
    /\ walkFiles = <<>>
    /\ walkListed = 0
    /\ walkExamined = 0
    /\ walkState = "called"

NextWalk == WalkEnter \/ WalkEntry \/ WalkBreak \/ WalkLeave

SpecWalk == InitWalk /\ [][NextWalk]_vars

--------------------------------------------------------------------------
(* Properties of the file walk *)

\* The entry a path relative to the root names.
RECURSIVE EntryAt(_, _)
EntryAt(entries, path) ==
    LET e == entries[CHOOSE i \in 1..Len(entries) : entries[i].name = path[1]]
    IN  IF Len(path) = 1 THEN e ELSE EntryAt(e.entries, Tail(path))

\* The name ends with one of the excluded extensions.
HasExcludedExtension(name) ==
    \E e \in SKIP_EXTENSIONS :
        /\ Len(name.segs) > Len(e)
        /\ \A j \in 1..Len(e) :
              ToLowerCase(name.segs[Len(name.segs) - Len(e) + j]) = e[j]

\* A collected path as the walk is to leave it: a file of at most 50 KB,
\* under no excluded directory, no dotfile but .env and .env.example, of no
\* excluded extension.
PathAllowed(path) ==
    /\ EntryAt(walkTree, path).target = "file"
    /\ EntryAt(walkTree, path).size <= MAX_FILE_SIZE
    /\ \A j \in 1..(Len(path) - 1) : path[j] \notin SKIP_DIRS
    /\ StartsWithDot(path[Len(path)]) => path[Len(path)] \in {DotEnv, DotEnvExample}
    /\ ~HasExcludedExtension(path[Len(path)])

\* The collected list never holds more than 500 paths.
WalkAtMostMaxFiles == Len(walkFiles) <= MAX_FILES

\* Once 500 paths are collected no directory is listed, no entry examined
\* and no path added.
WalkShortCircuits ==
    [][Len(walkFiles) >= MAX_FILES
        => /\ walkListed' = walkListed
           /\ walkExamined' = walkExamined
           /\ walkFiles' = walkFiles]_vars

\* C12: in every state of walkDir the collected list holds at most 500
\* paths, each a file of at most 50 KB that is not under an excluded
\* directory, not a dotfile other than .env and .env.example and not of an
\* excluded extension; once 500 paths are collected no further directory is
\* listed and no further file is examined.
C12_WalkCollectsAllowedFilesUpToCap ==
    /\ [](WalkAtMostMaxFiles /\ \A i \in 1..Len(walkFiles) : PathAllowed(walkFiles[i]))
    /\ WalkShortCircuits

--------------------------------------------------------------------------
(* Persistence layer: lib/db *)

\* A row with this primary key exists.
HasRow(tbl, id) == id \in DOMAIN tbl

\* INSERT of a primary key the table does not hold yet.
InsertRow(tbl, id, row) == tbl @@ (id :> row)

\* The row createSession inserts: status takes the column default.
NewSession(source) ==
    [source |-> source, status |-> "Processing", dfd_mermaid |-> Null]

\* updateSession(id, updates): the columns given are set; no row, no change.
updateSession(tbl, id, updates) ==
    IF ~HasRow(tbl, id) THEN tbl
    ELSE [tbl EXCEPT ![id] =
            [@ EXCEPT !.status = IF updates.status.k # "undefined" THEN updates.status.v[1] ELSE @,
                      !.dfd_mermaid = IF updates.dfd_mermaid.k # "undefined"
                                      THEN updates.dfd_mermaid ELSE @]]

\* The columns createThreat inserts; status takes the column default and
\* the OWASP arguments have no column.
NewThreat(threat) ==
    [session_id |-> threat.sessionId, title |-> threat.title,
     stride_category |-> threat.strideCategory, severity |-> threat.severity,
     status |-> "Identified"]

\* Variant: the UPDATE always sets both columns, a column not given to NULL.
updateThreatSetsBoth(tbl, id, updates) ==
    IF ~HasRow(tbl, id) THEN tbl
    ELSE [tbl EXCEPT ![id] =
            [@ EXCEPT !.status = IF updates.status.k # "undefined" THEN updates.status.v[1] ELSE "NULL",
                      !.severity = IF updates.severity.k # "undefined"
                                   THEN updates.severity.v[1] ELSE "NULL"]]

\* updateThreat(id, updates): status and severity are set when given.
updateThreat(tbl, id, updates) ==
    IF ~HasRow(tbl, id) THEN tbl
    ELSE [tbl EXCEPT ![id] =
            [@ EXCEPT !.status = IF updates.status.k # "undefined" THEN updates.status.v[1] ELSE @,
                      !.severity = IF updates.severity.k # "undefined"
                                   THEN updates.severity.v[1] ELSE @]]

\* x || null
OrNull(x) == IF Falsy(x) THEN Null ELSE x

\* The columns createMitigation inserts.
NewMitigation(mitigation) ==
    [threat_id |-> mitigation.threatId, status |-> "Proposed",
     code_file |-> OrNull(mitigation.codeFile),
     code_original |-> OrNull(mitigation.codeOriginal),
     code_fixed |-> OrNull(mitigation.codeFixed)]

\* A variant that sets the status of every mitigation of the same session.
updateMitigationOfSession(tbl, id, status) ==
    IF ~HasRow(tbl, id) THEN tbl
    ELSE [m \in DOMAIN tbl |->
            IF m[2] = id[2] THEN [tbl[m] EXCEPT !.status = status] ELSE tbl[m]]

\* updateMitigation(id, { status })
updateMitigation(tbl, id, status) ==
    IF ~HasRow(tbl, id) THEN tbl ELSE [tbl EXCEPT ![id].status = status]

--------------------------------------------------------------------------
(* Degraded mode of the generator: threat-generator.ts *)

categories ==
    <<"Spoofing", "Tampering", "Repudiation",
      "Information Disclosure", "Denial of Service", "Elevation of Privilege">>

\* severityMap[finding.severity] || "Medium": the keys are lower case, the
\* severities of findings are capitalised.
severityMap(severity) ==
    CASE severity = "high" -> "Critical"
      [] severity = "medium" -> "High"
      [] severity = "low" -> "Medium"
      [] OTHER -> "Medium"

\* A record written by a demo generator: no OWASP factors.
DemoThreat(title, cat, sev, mitigation) ==
    [kept |-> TRUE, title |-> title, strideCategory |-> cat, severity |-> sev,
     mitigations |-> <<mitigation>>,
     owaspLikelihood |-> Undef, owaspImpact |-> Undef]

ProseMitigation ==
    [description |-> <<"prose">>, codeFile |-> Undef, codeLine |-> Undef,
     codeOriginal |-> Undef, codeFixed |-> Undef]

\* The mitigation of a finding: its file, line and snippet, and a fix.
FindingMitigation(finding) ==
    [description |-> <<"fix", finding.pattern>>,
     codeFile |-> Str(<<finding.file>>), codeLine |-> Num(finding.match),
     codeOriginal |-> Str(<<"snippet", finding.pattern>>),
     codeFixed |-> Str(<<"FIXED", finding.pattern>>)]

archThreats ==
    << [title |-> "Insufficient Authentication on API Gateway", cat |-> "Spoofing", sev |-> "High"],
       [title |-> "Missing Rate Limiting on Public Endpoints", cat |-> "Denial of Service", sev |-> "High"],
       [title |-> "Insecure Data Transmission Between Services", cat |-> "Information Disclosure", sev |-> "Medium"],
       [title |-> "Missing Audit Logging for Administrative Actions", cat |-> "Repudiation", sev |-> "Medium"],
       [title |-> "Improper Input Validation at Trust Boundary", cat |-> "Tampering", sev |-> "High"],
       [title |-> "Overly Permissive Role-Based Access Controls", cat |-> "Elevation of Privilege", sev |-> "Critical"] >>

\* s.slice(0, n)
Slice(s, n) == SubSeq(s, 1, Min(Max(n, 0), Len(s)))

generateDemoThreats(analysis) ==
    LET found == Slice(analysis.securityFindings, 6)
        fromFindings ==
            [i \in 1..Len(found) |->
                DemoThreat(<<categories[((i - 1) % 6) + 1], found[i].pattern>>,
                           categories[((i - 1) % 6) + 1],
                           severityMap(found[i].severity),
                           FindingMitigation(found[i]))]
        arch == Slice(archThreats, Max(2, 8 - Len(found)))
    IN  fromFindings
        \o [i \in 1..Len(arch) |->
                DemoThreat(<<arch[i].title>>, arch[i].cat, arch[i].sev, ProseMitigation)]

generateDemoThreatsFromDoc ==
    << DemoThreat(<<"Insufficient Authentication in Proposed Architecture">>,
                  "Spoofing", "High", ProseMitigation),
       DemoThreat(<<"Data Tampering in Message Queue Processing">>,
                  "Tampering", "High", ProseMitigation),
       DemoThreat(<<"Missing Audit Trail for Critical Operations">>,
                  "Repudiation", "Medium", ProseMitigation),
       DemoThreat(<<"Sensitive Data Exposure in API Responses">>,
                  "Information Disclosure", "Critical", ProseMitigation),
       DemoThreat(<<"Resource Exhaustion via Unthrottled API Calls">>,
                  "Denial of Service", "High", ProseMitigation),
       DemoThreat(<<"Privilege Escalation Through Insecure Direct Object References">>,
                  "Elevation of Privilege", "Critical", ProseMitigation) >>

--------------------------------------------------------------------------
(* Analysis pipeline: POST /sessions/:id/analyze *)

\* A session id is tm-<the first group of a fresh UUID>: its segments.
RepoSession == <<"tm", "3f9a1c05">>
DocSession == <<"tm", "b27e44d1">>
SessionIds == {RepoSession, DocSession}

\* The sessions that get created: one per source.
NewSessions == {<<RepoSession, "github-repo">>, <<DocSession, "design-doc">>}

\* sessionId.split("-").pop() || sessionId.slice(-8): the last segment of
\* the session id, which is never empty here.
ShortId(sessionId) == sessionId[Len(sessionId)]

ThreatId(sessionId, i) == <<"TC", ShortId(sessionId), i>>
MitigationId(sessionId, i, j) == <<"MIT", ShortId(sessionId), i, j>>
ReviewId(prefix, sessionId) == <<prefix, ShortId(sessionId)>>

\* gt.owaspLikelihood as calculateRiskRating receives it: absent on a demo
\* record, the validated factors on a parsed one.
GtFactors(x, fields) == IF "k" \in DOMAIN x THEN x ELSE FactorsAsJs(x, fields)

\* The risk rating the persisting loop computes for a generated threat.
GtRiskRating(gt) ==
    calculateRiskRating(GtFactors(gt.owaspLikelihood, LikelihoodFields),
                        GtFactors(gt.owaspImpact, ImpactFields))

\* Variant: the severity the generator put on the record is written.
createThreatArgsTrustingGenerator(sessionId, i, gt, riskRating) ==
    [id |-> ThreatId(sessionId, i), sessionId |-> sessionId,
     title |-> gt.title, strideCategory |-> gt.strideCategory,
     severity |-> gt.severity,
     owaspRiskLevel |-> riskRating.riskSeverity,
     owaspFactors |-> [likelihood |-> riskRating.likelihood,
                       impact |-> riskRating.impact]]

\* The argument of createThreat for the i-th generated threat, given its
\* risk rating.
createThreatArgs(sessionId, i, gt, riskRating) ==
    [id |-> ThreatId(sessionId, i), sessionId |-> sessionId,
     title |-> gt.title, strideCategory |-> gt.strideCategory,
     severity |-> SurfacedSeverity(riskRating.riskSeverity),
     owaspRiskLevel |-> riskRating.riskSeverity,
     owaspFactors |-> [likelihood |-> riskRating.likelihood,
                       impact |-> riskRating.impact]]

\* The argument of createMitigation; the design-document path passes the
\* description only.
createMitigationArgs(threatId, source, mit) ==
    [threatId |-> threatId, description |-> mit.description,
     codeFile |-> IF source = "github-repo" THEN mit.codeFile ELSE Undef,
     codeOriginal |-> IF source = "github-repo" THEN mit.codeOriginal ELSE Undef,
     codeFixed |-> IF source = "github-repo" THEN mit.codeFixed ELSE Undef]

\* The inner loop: createMitigation for the mitigations j.. of threat i. An
\* INSERT throws on a primary key that exists.
RECURSIVE PersistMitigations(_, _, _, _, _, _)
PersistMitigations(db, sessionId, source, i, mits, j) ==
    IF j > Len(mits) THEN db
    ELSE IF HasRow(db.mitigations, MitigationId(sessionId, i, j))
    THEN [db EXCEPT !.threw = TRUE]
    ELSE PersistMitigations(
            [db EXCEPT !.mitigations =
                InsertRow(@, MitigationId(sessionId, i, j),
                          NewMitigation(createMitigationArgs(ThreatId(sessionId, i),
                                                            source, mits[j])))],
            sessionId, source, i, mits, j + 1)

\* What the history keeps of a createThreat call: the generated record's
\* severity and factors, and the arguments written.
LogEntry(source, demo, gt, args) ==
    [source |-> source, demo |-> demo, generated |-> gt.severity,
     owaspLikelihood |-> GtFactors(gt.owaspLikelihood, LikelihoodFields),
     owaspImpact |-> GtFactors(gt.owaspImpact, ImpactFields),
     severity |-> args.severity, owaspFactors |-> args.owaspFactors]

\* createThreat(args): the INSERT throws on a primary key that exists and on
\* a session that does not.
createThreat(db, source, demo, gt, args) ==
    IF HasRow(db.threats, args.id) \/ ~HasRow(sessions, args.sessionId)
    THEN [db EXCEPT !.threw = TRUE]
    ELSE [db EXCEPT !.threats = InsertRow(@, args.id, NewThreat(args)),
                    !.log = InsertRow(@, args.id, LogEntry(source, demo, gt, args))]

\* The loop over generatedThreats from the i-th on: createThreat, then the
\* mitigations; a throw leaves the rows written so far.
RECURSIVE PersistThreats(_, _, _, _, _, _), PersistRest(_, _, _, _, _, _)
PersistThreats(db, sessionId, source, demo, gts, i) ==
    IF i > Len(gts) THEN db
    ELSE PersistRest(
            createThreat(db, source, demo, gts[i],
                         createThreatArgs(sessionId, i, gts[i], GtRiskRating(gts[i]))),
            sessionId, source, demo, gts, i)

\* After createThreat for the i-th threat: its mitigations, then the others.
PersistRest(db, sessionId, source, demo, gts, i) ==
    IF db.threw THEN db
    ELSE PersistThreats(
            PersistMitigations(db, sessionId, source, i, gts[i].mitigations, 1),
            sessionId, source, demo, gts, i + 1)

ReviewType(prefix) ==
    CASE prefix = "DE" -> "enhancement"
      [] prefix = "DR" -> "risk"
      [] prefix = "CL" -> "context-layer"

\* The createDesignReview calls of the design-document path, in order.
RECURSIVE PersistReviews(_, _, _)
PersistReviews(db, sessionId, prefixes) ==
    IF prefixes = <<>> \/ db.threw THEN db
    ELSE IF HasRow(db.reviews, ReviewId(Head(prefixes), sessionId))
            \/ ~HasRow(sessions, sessionId)
    THEN [db EXCEPT !.threw = TRUE]
    ELSE PersistReviews(
            [db EXCEPT !.reviews =
                InsertRow(@, ReviewId(Head(prefixes), sessionId),
                          [session_id |-> sessionId, type |-> ReviewType(Head(prefixes))])],
            sessionId, Tail(prefixes))

\* The tables as a persisting step finds them.
Tables ==
    [threats |-> threats, mitigations |-> mitigations, reviews |-> designReviews,
     log |-> persistLog, threw |-> FALSE]

\* What persisting the generated threats of a run leaves in the tables.
Persisted(session, source, demo, gts) ==
    PersistReviews(PersistThreats(Tables, session, source, demo, gts, 1), session,
                   IF source = "github-repo" THEN <<>> ELSE <<"DE", "DR", "CL">>)

\* The most analysis runs started and the most threat requests served.
MaxRuns == 2
MaxRequests == 2

\* What analyzeRepo found: the findings of a one-file tree.
Analyses ==
    {[securityFindings |->
        ScanOneFile(<<>>, FileAt(1, FileShape(".ts", FALSE, TRUE, Only(1, n))))] :
     n \in {0, 9}}

\* What the upstream model answered: a fenced array of two threats, an
\* array cut inside its second threat, the empty array, and an array cut
\* inside its first threat.
ModelTexts ==
    {FullText(<<HighThreat, NoteThreat>>, TRUE),
     Prefix(FullText(<<QuotedThreat, HighThreat>>, FALSE),
            ElemEnd(<<QuotedThreat, HighThreat>>, FALSE, 1) + 2),
     FullText(<<>>, FALSE),
     Prefix(FullText(<<NoteThreat>>, FALSE), 9)}

Init ==
    /\ RiskIdle
    /\ ParseIdle
    /\ ScanIdle
    /\ PipeIdle
    /\ AnalyzerIdle

\* createSession, as the session route calls it.
CreateSession(s, source) ==
    /\ ~HasRow(sessions, s)
    /\ sessions' = InsertRow(sessions, s, NewSession(source))
    /\ UNCHANGED <<otherVars, tmpDirs, threats, mitigations, designReviews,
                   runs, requests, persistLog, patchLog>>

\* The run as POST leaves it: at the first await of its path.
NewRun(s, source) ==
    [session |-> s, source |-> source,
     pc |-> IF source = "github-repo" THEN "analyzeRepo" ELSE "phase1",
     demo |-> FALSE, analysis |-> [securityFindings |-> <<>>], generated |-> <<>>]

\* POST /sessions/:id/analyze on a session in status Processing.
PostAnalyze(s) ==
    /\ Len(runs) < MaxRuns
    /\ HasRow(sessions, s)
    /\ sessions[s].status = "Processing"
    /\ runs' = Append(runs, NewRun(s, sessions[s].source))
    /\ UNCHANGED <<otherVars, tmpDirs, dbVars, requests, persistLog, patchLog>>

StatusUpdate(status) == [status |-> Str(<<status>>), dfd_mermaid |-> Undef]

\* A variant of the catch that ends the run and leaves the status.
FailedKeepingStatus(r) ==
    /\ UNCHANGED sessions
    /\ runs' = [runs EXCEPT ![r].pc = "failed"]

\* The catch of runAnalysisPipeline: the run ends, the session is Failed.
Failed(r) ==
    /\ sessions' = updateSession(sessions, runs[r].session, StatusUpdate("Failed"))
    /\ runs' = [runs EXCEPT ![r].pc = "failed"]

\* An awaited model call of run r rejects.
StepThrows(r) ==
    /\ runs[r].pc \in {"callLLM", "phase1", "contextLayer"}
    /\ Failed(r)
    /\ UNCHANGED <<otherVars, tmpDirs, threats, mitigations, designReviews,
                   requests, persistLog, patchLog>>

\* path.join(os.tmpdir(), `threat-model-${sessionId}`), by its segments.
TmpDir(sessionId) == <<"tmp", "threat-model">> \o sessionId

\* Run r is inside analyzeRepo: invoked and not yet finished.
InAnalyzeRepo(r) == runs[r].pc \in {"analyzeRepo", "cloneRefused", "cloning"}

\* The git process of another run may be writing into the directory.
ClonedIntoByOther(r, dir) ==
    \E o \in 1..Len(runs) :
        o # r /\ runs[o].pc = "cloning" /\ TmpDir(runs[o].session) = dir

\* The finally block of analyzeRepo: rmSync(tmpDir, recursive, force), its
\* errors ignored. Against a process writing into the directory the removal
\* goes through or fails with the directory not empty.
RmSync(r, dir, removed) ==
    IF ClonedIntoByOther(r, dir) /\ ~removed THEN tmpDirs ELSE tmpDirs \ {dir}

\* git clone of run r looks at its destination: it refuses a directory that
\* exists and is not empty, else it creates it.
GitBegins(r) ==
    /\ runs[r].pc = "analyzeRepo"
    /\ IF TmpDir(runs[r].session) \in tmpDirs
       THEN /\ runs' = [runs EXCEPT ![r].pc = "cloneRefused"]
            /\ UNCHANGED tmpDirs
       ELSE /\ runs' = [runs EXCEPT ![r].pc = "cloning"]
            /\ tmpDirs' = tmpDirs \cup {TmpDir(runs[r].session)}
    /\ UNCHANGED <<otherVars, dbVars, requests, persistLog, patchLog>>

\* analyzeRepo throws: the clone is refused or fails, or a later step throws
\* (the walk on a directory that is gone); the finally block runs, and the
\* catch of runAnalysisPipeline.
AnalyzeRepoThrows(r, removed) ==
    /\ runs[r].pc \in {"cloneRefused", "cloning"}
    /\ tmpDirs' = RmSync(r, TmpDir(runs[r].session), removed)
    /\ Failed(r)
    /\ UNCHANGED <<otherVars, threats, mitigations, designReviews,
                   requests, persistLog, patchLog>>

\* analyzeRepo resolves: the clone is read, the finally block runs, the
\* diagram is stored and generateThreats is called.
AnalyzeRepoReturns(r, analysis, removed) ==
    /\ runs[r].pc = "cloning"
    /\ TmpDir(runs[r].session) \in tmpDirs
    /\ tmpDirs' = RmSync(r, TmpDir(runs[r].session), removed)
    /\ sessions' = updateSession(sessions, runs[r].session,
                        [status |-> Undef, dfd_mermaid |-> Str(<<"graph TD">>)])
    /\ runs' = [runs EXCEPT ![r].pc = "generateThreats", ![r].analysis = analysis]
    /\ UNCHANGED <<otherVars, threats, mitigations, designReviews,
                   requests, persistLog, patchLog>>

\* A variant that writes Review whatever the persisting loop did.
FinishIgnoringThrow(r, gts, demo, db) ==
    /\ threats' = db.threats
    /\ mitigations' = db.mitigations
    /\ designReviews' = db.reviews
    /\ persistLog' = db.log
    /\ sessions' = updateSession(sessions, runs[r].session, StatusUpdate("Review"))
    /\ runs' = [runs EXCEPT ![r].pc = "done", ![r].demo = demo, ![r].generated = gts]

\* The end of a run whose persisting loop left db: the tables, then the
\* status, Review, or Failed when an INSERT threw.
Finish(r, gts, demo, db) ==
    /\ threats' = db.threats
    /\ mitigations' = db.mitigations
    /\ designReviews' = db.reviews
    /\ persistLog' = db.log
    /\ sessions' = updateSession(sessions, runs[r].session,
                        StatusUpdate(IF db.threw THEN "Failed" ELSE "Review"))
    /\ runs' = [runs EXCEPT ![r].pc = IF db.threw THEN "failed" ELSE "done",
                            ![r].demo = demo, ![r].generated = gts]

\* The persisting loop of run r on the generated threats and its end.
PersistAndFinish(r, gts, demo) ==
    Finish(r, gts, demo, Persisted(runs[r].session, runs[r].source, demo, gts))

\* generateThreats without credentials: the demo threats are persisted.
GenerateThreatsDemo(r) ==
    /\ runs[r].pc = "generateThreats"
    /\ PersistAndFinish(r, generateDemoThreats(runs[r].analysis), TRUE)
    /\ UNCHANGED <<otherVars, tmpDirs, requests, patchLog>>

\* generateThreats with credentials: callLLM sends the one request to the
\* provider and awaits its answer, with no deadline of its own.
CallLLM(r) ==
    /\ runs[r].pc = "generateThreats"
    /\ runs' = [runs EXCEPT ![r].pc = "callLLM"]
    /\ UNCHANGED <<otherVars, tmpDirs, dbVars, requests, persistLog, patchLog>>

\* The provider answers: the answer is parsed and persisted, or the parser
\* throws.
GenerateThreatsModel(r, answer) ==
    /\ runs[r].pc = "callLLM"
    /\ LET result == parseThreatsResponse(answer)
       IN  IF result.ok
           THEN PersistAndFinish(r, result.threats, FALSE)
           ELSE Failed(r) /\ UNCHANGED <<threats, mitigations, designReviews, persistLog>>
    /\ UNCHANGED <<otherVars, tmpDirs, requests, patchLog>>

\* The three parallel generations of the design-document path resolve,
\* without credentials: the context layer is generated next.
Phase1Demo(r) ==
    /\ runs[r].pc = "phase1"
    /\ runs' = [runs EXCEPT ![r].pc = "contextLayer", ![r].demo = TRUE,
                            ![r].generated = generateDemoThreatsFromDoc]
    /\ UNCHANGED <<otherVars, tmpDirs, dbVars, requests, persistLog, patchLog>>

\* The same with credentials: the answer is parsed, or the parser throws.
Phase1Model(r, answer) ==
    /\ runs[r].pc = "phase1"
    /\ LET result == parseThreatsResponse(answer)
       IN  IF result.ok
           THEN /\ runs' = [runs EXCEPT ![r].pc = "contextLayer",
                                        ![r].generated = result.threats]
                /\ UNCHANGED sessions
           ELSE Failed(r)
    /\ UNCHANGED <<otherVars, tmpDirs, threats, mitigations, designReviews,
                   requests, persistLog, patchLog>>

\* generateContextLayer resolves: threats, mitigations and reviews are
\* persisted.
ContextLayerReturns(r) ==
    /\ runs[r].pc = "contextLayer"
    /\ PersistAndFinish(r, runs[r].generated, runs[r].demo)
    /\ UNCHANGED <<otherVars, tmpDirs, requests, patchLog>>

--------------------------------------------------------------------------
(* Threat requests: PATCH /threats/:id and POST /threats/:id/apply-fix *)

validStatuses == {"Identified", "In Progress", "Mitigated", "Accepted"}
validSeverities == {"Critical", "High", "Medium", "Low"}

\* list.includes(x) for a list of strings
Includes(list, x) == x.k = "string" /\ Len(x.v) = 1 /\ x.v[1] \in list

\* The threats and bodies of the requests.
TargetThreats ==
    {ThreatId(RepoSession, 1), ThreatId(RepoSession, 2), ThreatId(DocSession, 1)}
PatchBody(status, severity) == [status |-> status, severity |-> severity]
PatchBodies ==
    {PatchBody(Str(<<"Accepted">>), Undef),
     PatchBody(Undef, Str(<<"Critical">>)),
     PatchBody(Str(<<"Accepted">>), Str(<<"Low">>)),
     PatchBody(Str(<<"Bogus">>), Str(<<"Critical">>)),
     PatchBody(Undef, Str(<<"Note">>)),
     PatchBody(Str(<<>>), Num(0))}

\* The updates PATCH collects, when it does not answer 400.
PatchUpdates(body) ==
    [status |-> IF Falsy(body.status) THEN Undef ELSE body.status,
     severity |-> IF Falsy(body.severity) THEN Undef ELSE body.severity]

\* PATCH answers 404 or 400 and changes nothing.
PatchRejected(id, body) ==
    \/ ~HasRow(threats, id)
    \/ ~Falsy(body.status) /\ ~Includes(validStatuses, body.status)
    \/ ~Falsy(body.severity) /\ ~Includes(validSeverities, body.severity)

\* PATCH /threats/:id
PatchThreat(id, body) ==
    /\ requests < MaxRequests
    /\ requests' = requests + 1
    /\ IF PatchRejected(id, body)
       THEN UNCHANGED <<threats, patchLog>>
       ELSE /\ threats' = updateThreat(threats, id, PatchUpdates(body))
            /\ patchLog' =
                IF PatchUpdates(body).severity.k = "undefined" THEN patchLog
                ELSE IF HasRow(patchLog, id)
                THEN [patchLog EXCEPT ![id] = body.severity.v[1]]
                ELSE InsertRow(patchLog, id, body.severity.v[1])
    /\ UNCHANGED <<otherVars, tmpDirs, sessions, mitigations, designReviews,
                   runs, persistLog>>

\* A row has a code fix.
HasCodeFix(m) == ~Falsy(m.code_file) /\ ~Falsy(m.code_original) /\ ~Falsy(m.code_fixed)

\* listMitigations(threatId).find(with a code fix): the first in id order.
FirstWithCode(threatId) ==
    LET with == {id \in DOMAIN mitigations :
                    mitigations[id].threat_id = threatId /\ HasCodeFix(mitigations[id])}
    IN  IF with = {} THEN Undef
        ELSE Str(CHOOSE id \in with : \A other \in with : id[4] <= other[4])

\* The mitigation apply-fix works on: Str(id), or Undef when none is found.
ChosenMitigation(threatId, mitigationId) ==
    IF ~Falsy(mitigationId)
    THEN (IF HasRow(mitigations, mitigationId.v) THEN mitigationId ELSE Undef)
    ELSE FirstWithCode(threatId)

\* apply-fix answers 404 or 400 before it calls applyFix.
ApplyFixRejected(threatId, mitigationId) ==
    \/ ~HasRow(threats, threatId)
    \/ ChosenMitigation(threatId, mitigationId).k = "undefined"
    \/ ~HasCodeFix(mitigations[ChosenMitigation(threatId, mitigationId).v])
    \/ ~HasRow(sessions, threats[threatId].session_id)
    \/ sessions[threats[threatId].session_id].source # "github-repo"

MitigationIds ==
    {Undef, Str(MitigationId(RepoSession, 1, 1)), Str(MitigationId(RepoSession, 2, 1))}

\* POST /threats/:id/apply-fix; applied is whether applyFix reports success
\* (it may also report failure or throw).
ApplyFix(threatId, mitigationId, applied) ==
    /\ requests < MaxRequests
    /\ requests' = requests + 1
    /\ IF ApplyFixRejected(threatId, mitigationId) \/ ~applied
       THEN UNCHANGED <<threats, mitigations>>
       ELSE /\ mitigations' = updateMitigation(mitigations,
                                  ChosenMitigation(threatId, mitigationId).v, "Implemented")
            /\ threats' = updateThreat(threats, threatId,
                                  [status |-> Str(<<"Mitigated">>), severity |-> Undef])
    /\ UNCHANGED <<otherVars, tmpDirs, sessions, designReviews,
                   runs, persistLog, patchLog>>

Next ==
    \/ \E new \in NewSessions : CreateSession(new[1], new[2])
    \/ \E s \in SessionIds : PostAnalyze(s)
    \/ \E r \in 1..Len(runs) : StepThrows(r)
    \/ \E r \in 1..Len(runs) : GitBegins(r)
    \/ \E r \in 1..Len(runs), removed \in BOOLEAN : AnalyzeRepoThrows(r, removed)
    \/ \E r \in 1..Len(runs), analysis \in Analyses, removed \in BOOLEAN :
            AnalyzeRepoReturns(r, analysis, removed)
    \/ \E r \in 1..Len(runs) : GenerateThreatsDemo(r)
    \/ \E r \in 1..Len(runs) : CallLLM(r)
    \/ \E r \in 1..Len(runs), answer \in ModelTexts : GenerateThreatsModel(r, answer)
    \/ \E r \in 1..Len(runs) : Phase1Demo(r)
    \/ \E r \in 1..Len(runs), answer \in ModelTexts : Phase1Model(r, answer)
    \/ \E r \in 1..Len(runs) : ContextLayerReturns(r)
    \/ \E id \in TargetThreats, body \in PatchBodies : PatchThreat(id, body)
    \/ \E id \in TargetThreats, mitigationId \in MitigationIds, applied \in BOOLEAN :
            ApplyFix(id, mitigationId, applied)

Spec == Init /\ [][Next]_vars

\* The steps of run r that wait for nothing outside the machine: the git
\* process starts and ends, analyzeRepo resolves or throws, and
\* generateThreats, which does not wait before it has read the credentials,
\* sends the request (returning the demo threats is the other step out of
\* that position).
ScheduledStep(r) ==
    /\ r \in 1..Len(runs)
    /\ \/ GitBegins(r)
       \/ \E removed \in BOOLEAN : AnalyzeRepoThrows(r, removed)
       \/ \E analysis \in Analyses, removed \in BOOLEAN :
              AnalyzeRepoReturns(r, analysis, removed)
       \/ CallLLM(r)

\* The runs of the repository path alone.
NextLive ==
    \/ \E new \in NewSessions : CreateSession(new[1], new[2])
    \/ \E s \in SessionIds : PostAnalyze(s)
    \/ \E r \in 1..Len(runs) : ScheduledStep(r)
    \/ \E r \in 1..Len(runs) : GenerateThreatsDemo(r)
    \/ \E r \in 1..Len(runs), answer \in ModelTexts : GenerateThreatsModel(r, answer)
    \/ \E r \in 1..Len(runs) : StepThrows(r)

\* The pipeline with the progress its scheduling gives: a continuation that
\* is ready runs and the git process ends. Nothing in callLLM makes a
\* request to the provider settle.
SpecLive == Init /\ [][NextLive]_vars /\ \A r \in 1..MaxRuns : WF_vars(ScheduledStep(r))

--------------------------------------------------------------------------
(* extractArchitecture: components, data flows and trust boundaries *)

\* A relative path of the walk: the directories, the name up to its first
\* dot and the dot-separated rest, each a sequence of the words it is
\* written with; and what reading the file gives: the words of its content,
\* or a throw.
ArchFile(dirs, stem, exts, content, readable) ==
    [dirs |-> dirs, stem |-> stem, exts |-> exts, content |-> content,
     readable |-> readable]

\* A word as a case-insensitive pattern sees it.
LowerWord(w) ==
    CASE w = "Auth" -> "auth"
      [] w = "Kafka" -> "kafka"
      [] w = "Dockerfile" -> "dockerfile"
      [] w = "Routes" -> "routes"
      [] w = "TSX" -> "tsx"
      [] OTHER -> w

Last(seq) == seq[Len(seq)]

\* The words of the whole path.
RECURSIVE WordsOfParts(_)
WordsOfParts(parts) ==
    IF parts = <<>> THEN {}
    ELSE {Head(parts)[i] : i \in 1..Len(Head(parts))} \cup WordsOfParts(Tail(parts))
PathWords(f) == WordsOfParts(f.dirs \o <<f.stem, f.exts>>)

\* An unanchored pattern /(?:a|b|c)/i on the path.
PathHas(f, alternatives) == \E w \in PathWords(f) : LowerWord(w) \in alternatives

\* A pattern /(?:a|b|c)\//i: a directory whose name ends with one of them.
DirEndsWith(f, alternatives) ==
    \E i \in 1..Len(f.dirs) :
        f.dirs[i] # <<>> /\ LowerWord(Last(f.dirs[i])) \in alternatives

\* The text after the last dot of the path, and the word before that dot.
LastExt(f) == IF f.exts = <<>> THEN "" ELSE Last(f.exts)
BeforeLastDot(f) ==
    IF Len(f.exts) >= 2 THEN f.exts[Len(f.exts) - 1]
    ELSE IF f.stem = <<>> THEN "" ELSE Last(f.stem)

\* A pattern /(?:a|b|c)/i on the content read from the file; a read that
\* throws counts as no match.
ContentHas(f, alternatives) ==
    f.readable /\ \E w \in f.content : LowerWord(w) \in alternatives

IsApiFile(f) ==
    \/ DirEndsWith(f, {"route", "routes", "controller", "controllers", "handler",
                       "handlers", "api", "endpoint", "endpoints"})
    \/ /\ f.exts # <<>>
       /\ LowerWord(BeforeLastDot(f)) \in {"route", "routes", "controller",
                                           "controllers", "handler", "handlers"}
       /\ LowerWord(LastExt(f)) \in {"ts", "js", "py", "go"}

IsFrontendFile(f) ==
    /\ DirEndsWith(f, {"page", "pages", "view", "views", "component", "components",
                       "screen", "screens"})
    /\ LastExt(f) \in {"ts", "tsx", "js", "jsx"}

dbPatterns ==
    {"mongoose", "sequelize", "prisma", "typeorm", "knex", "sqlalchemy", "gorm",
     "diesel", "pg", "mysql", "mongodb", "redis"}
queuePatterns ==
    {"mqtt", "kafka", "rabbitmq", "sqs", "pubsub", "amqp", "bull", "celery", "nats"}

IsDbFile(f) == ContentHas(f, dbPatterns)
IsQueueFile(f) == ContentHas(f, queuePatterns)
IsAuthFile(f) ==
    PathHas(f, {"auth", "login", "session", "jwt", "oauth", "passport", "guard"})
IsInfraFile(f) ==
    \/ PathHas(f, {"dockerfile", "docker-compose", "cloudformation", "k8s", "helm"})
    \/ LowerWord(LastExt(f)) = "tf"
    \/ LastExt(f) = "env"
    \/ LastExt(f) = "example" /\ BeforeLastDot(f) = "env"
IsGatewayFile(f) ==
    PathHas(f, {"gateway", "proxy", "nginx", "haproxy", "envoy", "middleware"})
IsSrcFile(f) ==
    LastExt(f) \in {"ts", "js", "py", "go", "rs", "java", "cs", "rb", "php"}

\* components.push({name, type, files, description})
Component(name, type, files, description) ==
    [name |-> name, type |-> type, files |-> files, description |-> description]

\* One detection: the component is pushed when some file matched.
Detected(components, matched, name, type, keep, description) ==
    IF Len(matched) > 0
    THEN Append(components, Component(name, type, Slice(matched, keep), description))
    ELSE components

\* The components of the seven detections, in the order of the code.
DetectedComponents(files) ==
    Detected(
     Detected(
      Detected(
       Detected(
        Detected(
         Detected(
          Detected(<<>>, SelectSeq(files, IsApiFile), "API Server", "api", 20,
                   <<"API layer with", Len(SelectSeq(files, IsApiFile)),
                     "route/controller files">>),
          SelectSeq(files, IsFrontendFile), "Frontend Application", "frontend", 20,
          <<"Frontend with", Len(SelectSeq(files, IsFrontendFile)),
            "component/page files">>),
         SelectSeq(files, IsDbFile), "Database", "database", 10,
         <<"Data persistence layer">>),
        SelectSeq(files, IsQueueFile), "Message Queue", "queue", 10,
        <<"Asynchronous messaging layer">>),
       SelectSeq(files, IsAuthFile), "Auth Service", "service", 10,
       <<"Authentication and authorization service">>),
      SelectSeq(files, IsInfraFile), "Infrastructure", "config", 10,
      <<"Infrastructure and configuration files">>),
     SelectSeq(files, IsGatewayFile), "API Gateway", "gateway", 10,
     <<"API gateway or reverse proxy">>)

\* A variant that adds the generic component whatever was detected.
WithGenericAlways(components, files) ==
    Append(components,
           Component("Application", "service", Slice(SelectSeq(files, IsSrcFile), 20),
                     <<"Application with", Len(SelectSeq(files, IsSrcFile)),
                       "source files">>))

\* The generic component when nothing was detected.
WithGeneric(components, files) ==
    IF Len(components) = 0
    THEN <<Component("Application", "service", Slice(SelectSeq(files, IsSrcFile), 20),
                     <<"Application with", Len(SelectSeq(files, IsSrcFile)),
                       "source files">>)>>
    ELSE components

EndUser ==
    Component("End User", "external", <<>>, <<"External user accessing the application">>)

\* components.find((c) => c.type === type), as a truth value
HasType(components, type) == \E i \in 1..Len(components) : components[i].type = type
\* components.find((c) => c.name === name), as a truth value
HasName(components, name) == \E i \in 1..Len(components) : components[i].name = name

DataFlow(from, to, protocol, dataType) ==
    [from |-> from, to |-> to, protocol |-> protocol, dataType |-> dataType]

\* A variant that pushes whatever the condition.
FlowsAlways(condition, flows) == flows

\* dataFlows.push(...) under a condition
FlowsIf(condition, flows) == IF condition THEN flows ELSE <<>>

\* The data flows, from the components found before End User is pushed.
BuildDataFlows(hasApi, hasDb, hasQueue, hasAuth, hasFrontend, hasGateway) ==
    (IF hasFrontend /\ hasApi
     THEN <<DataFlow("End User", "Frontend Application", "HTTPS", "User Requests"),
            DataFlow("Frontend Application", "API Server", "HTTPS/REST", "API Calls")>>
     ELSE FlowsIf(hasApi,
            <<DataFlow("End User", IF hasGateway THEN "API Gateway" ELSE "API Server",
                       "HTTPS", "API Requests")>>))
    \o FlowsIf(hasGateway /\ hasApi,
         <<DataFlow("API Gateway", "API Server", "HTTP/Internal", "Proxied Requests")>>)
    \o FlowsIf(hasAuth /\ hasApi,
         <<DataFlow("API Server", "Auth Service", "Internal", "Auth Tokens")>>)
    \o FlowsIf(hasApi /\ hasDb,
         <<DataFlow("API Server", "Database", "TCP", "Queries/Data")>>)
    \o FlowsIf(hasAuth /\ hasDb,
         <<DataFlow("Auth Service", "Database", "TCP", "User Credentials")>>)
    \o FlowsIf(hasQueue /\ hasApi,
         <<DataFlow("API Server", "Message Queue", "AMQP/MQTT", "Events/Commands")>>)

\* A variant that takes the database for present.
DataFlowsOfAssumingDatabase(components) ==
    BuildDataFlows(HasType(components, "api"), TRUE,
                   HasType(components, "queue"), HasName(components, "Auth Service"),
                   HasType(components, "frontend"), HasType(components, "gateway"))

\* The data flows of the components found.
DataFlowsOf(components) ==
    BuildDataFlows(HasType(components, "api"), HasType(components, "database"),
                   HasType(components, "queue"), HasName(components, "Auth Service"),
                   HasType(components, "frontend"), HasType(components, "gateway"))

\* components.filter(keeps).map((c) => c.name)
RECURSIVE NamesOfType(_, _, _)
NamesOfType(components, type, same) ==
    IF components = <<>> THEN <<>>
    ELSE (IF (Head(components).type = type) = same
          THEN <<Head(components).name>> ELSE <<>>)
         \o NamesOfType(Tail(components), type, same)

TrustBoundary(name, components) == [name |-> name, components |-> components]

\* trustBoundaries.push(...) when the list of names is not empty
BoundaryIf(name, names) ==
    IF Len(names) > 0 THEN <<TrustBoundary(name, names)>> ELSE <<>>

\* The trust boundaries of the returned components.
BuildTrustBoundaries(components) ==
    BoundaryIf("Application Boundary", NamesOfType(components, "external", FALSE))
    \o BoundaryIf("External", NamesOfType(components, "external", TRUE))
    \o BoundaryIf("Infrastructure", Slice(NamesOfType(components, "config", TRUE), 1))

\* What extractArchitecture returns for the components found before End
\* User is pushed.
Architecture(found) ==
    [done |-> TRUE, components |-> Append(found, EndUser),
     dataFlows |-> DataFlowsOf(found),
     trustBoundaries |-> BuildTrustBoundaries(Append(found, EndUser))]

extractArchitecture(files) == Architecture(WithGeneric(DetectedComponents(files), files))

\* The files of the inputs: one per detection, one matching two detections,
\* one matching none, one whose content matches and cannot be read.
ArchFiles ==
    <<ArchFile(<<<<"src">>, <<"routes">>>>, <<"users">>, <<"ts">>, {"express"}, TRUE),
      ArchFile(<<<<"src">>, <<"components">>>>, <<"Button">>, <<"tsx">>, {"react"}, TRUE),
      ArchFile(<<<<"src">>>>, <<"db">>, <<"ts">>, {"prisma"}, TRUE),
      ArchFile(<<>>, <<"worker">>, <<"py">>, {"Kafka"}, TRUE),
      ArchFile(<<<<"lib">>>>, <<"Auth", "Guard">>, <<"go">>, {"http"}, TRUE),
      ArchFile(<<>>, <<"Dockerfile">>, <<>>, {"node"}, TRUE),
      ArchFile(<<>>, <<"nginx">>, <<"conf">>, {"upstream"}, TRUE),
      ArchFile(<<>>, <<"main">>, <<"rs">>, {"fn"}, TRUE),
      ArchFile(<<<<"src">>>>, <<"cache">>, <<"ts">>, {"redis"}, FALSE)>>

\* The files of a list that a choice keeps, in their order.
RECURSIVE Chosen(_, _, _)
Chosen(files, keep, i) ==
    IF i > Len(files) THEN <<>>
    ELSE (IF keep[i] THEN <<files[i]>> ELSE <<>>) \o Chosen(files, keep, i + 1)

ArchInputs == {Chosen(ArchFiles, keep, 1) : keep \in [1..Len(ArchFiles) -> BOOLEAN]}

InitArch ==
    /\ RiskIdle
    /\ ParseIdle
    /\ ScanIdle
    /\ PipeIdle
    /\ WalkIdle
    /\ archInput \in ArchInputs
    /\ archResult = [done |-> FALSE]
    /\ dfdInput = <<>>
    /\ dfdResult = [done |-> FALSE]

\* extractArchitecture(rootDir, files, frameworks, findings)
ExtractArchitecture ==
    /\ ~archResult.done
    /\ archResult' = extractArchitecture(archInput)
    /\ UNCHANGED <<riskVars, parseVars, scanVars, pipeVars, walkVars, archInput, dfdInput, dfdResult>>

--------------------------------------------------------------------------
(* generateDFD: dfd-generator.ts *)

\* escapeLabel on one symbol: a quote becomes an apostrophe, brackets,
\* braces, parentheses and the hash go.
EscapeSymbol(ch) ==
    IF ch = QUOTE THEN <<"'">>
    ELSE IF ch \in {"[", "]", "{", "}", "(", ")", "#"} THEN <<>>
    ELSE <<ch>>

RECURSIVE escapeLabel(_)
escapeLabel(label) ==
    IF label = <<>> THEN <<>>
    ELSE EscapeSymbol(Head(label)) \o escapeLabel(Tail(label))

\* `N${i}` and `SG${i}`, which sanitizeId leaves as they are.
NodeId(i) == <<"N0", "N1", "N2", "N3", "N4", "N5", "N6", "N7", "N8">>[i + 1]
SubgraphId(i) == <<"SG0", "SG1", "SG2", "SG3">>[i + 1]

\* map.set(key, value) on a Map kept as the list of its entries in
\* insertion order.
RECURSIVE MapSet(_, _, _)
MapSet(map, key, value) ==
    IF map = <<>> THEN << <<key, value>> >>
    ELSE IF Head(map)[1] = key THEN << <<key, value>> >> \o Tail(map)
    ELSE <<Head(map)>> \o MapSet(Tail(map), key, value)

MapHas(map, key) == \E i \in 1..Len(map) : map[i][1] = key
MapGet(map, key) == map[CHOOSE i \in 1..Len(map) : map[i][1] = key][2]

\* nodeIds after components.forEach from the i-th component on.
RECURSIVE AssignNodeIds(_, _, _)
AssignNodeIds(components, i, nodeIds) ==
    IF i > Len(components) THEN nodeIds
    ELSE AssignNodeIds(components, i + 1,
                       MapSet(nodeIds, components[i].name, NodeId(i - 1)))

\* The members of a boundary: its component names that have a node id.
Members(names, nodeIds) == SelectSeq(names, LAMBDA n : MapHas(nodeIds, n))

\* boundaryComponents after the loop over the boundaries.
RECURSIVE GroupByBoundary(_, _, _)
GroupByBoundary(boundaries, nodeIds, grouped) ==
    IF boundaries = <<>> THEN grouped
    ELSE GroupByBoundary(Tail(boundaries), nodeIds,
            IF Len(Members(Head(boundaries).components, nodeIds)) > 0
            THEN MapSet(grouped, Head(boundaries).name,
                        Members(Head(boundaries).components, nodeIds))
            ELSE grouped)

\* new Set(components.map((c) => c.name)): the names, each once, in order.
RECURSIVE NameSet(_, _)
NameSet(components, seen) ==
    IF components = <<>> THEN seen
    ELSE NameSet(Tail(components),
                 IF \E i \in 1..Len(seen) : seen[i] = Head(components).name
                 THEN seen ELSE Append(seen, Head(components).name))

\* ungrouped after the loop: the names no boundary lists.
Ungrouped(components, boundaries) ==
    SelectSeq(NameSet(components, <<>>),
              LAMBDA n : ~\E b \in 1..Len(boundaries) :
                            \E k \in 1..Len(boundaries[b].components) :
                               boundaries[b].components[k] = n)

\* components.find((c) => c.name === compName)
FindComponent(components, name) ==
    components[CHOOSE i \in 1..Len(components) :
                  /\ components[i].name = name
                  /\ \A j \in 1..(i - 1) : components[j].name # name]

\* renderNode(nodeId, comp), a line as the list of its symbols.
renderNode(nodeId, comp) ==
    CASE comp.type = "database" ->
            <<nodeId, "[", "(", QUOTE>> \o escapeLabel(comp.name) \o <<QUOTE, ")", "]">>
      [] comp.type = "external" ->
            <<nodeId, "[", "[", QUOTE>> \o escapeLabel(comp.name) \o <<QUOTE, "]", "]">>
      [] comp.type = "queue" ->
            <<nodeId, ">", ">", QUOTE>> \o escapeLabel(comp.name) \o <<QUOTE, "]">>
      [] comp.type = "gateway" ->
            <<nodeId, "{", "{", QUOTE>> \o escapeLabel(comp.name) \o <<QUOTE, "}", "}">>
      [] OTHER ->
            <<nodeId, "[", QUOTE>> \o escapeLabel(comp.name) \o <<QUOTE, "]">>

\* The node lines of the names, with an indentation.
NodeLines(indent, names, components, nodeIds) ==
    [k \in 1..Len(names) |->
        <<indent>> \o renderNode(MapGet(nodeIds, names[k]),
                                 FindComponent(components, names[k]))]

\* The lines of the subgraphs from the i-th entry of boundaryComponents on.
RECURSIVE SubgraphLines(_, _, _, _)
SubgraphLines(grouped, i, components, nodeIds) ==
    IF i > Len(grouped) THEN <<>>
    ELSE << <<"  subgraph ", SubgraphId(i - 1), "[", QUOTE>>
               \o escapeLabel(grouped[i][1]) \o <<QUOTE, "]">> >>
         \o NodeLines("    ", grouped[i][2], components, nodeIds)
         \o << <<"  end">> >>
         \o SubgraphLines(grouped, i + 1, components, nodeIds)

\* flow.protocol || flow.dataType
FlowLabel(flow) == IF flow.protocol = <<>> THEN flow.dataType ELSE flow.protocol

\* The edge lines of the flows whose ends both have a node id.
RECURSIVE EdgeLines(_, _)
EdgeLines(flows, nodeIds) ==
    IF flows = <<>> THEN <<>>
    ELSE (IF MapHas(nodeIds, Head(flows).from) /\ MapHas(nodeIds, Head(flows).to)
          THEN << <<"  ", MapGet(nodeIds, Head(flows).from), " -->", "|">>
                     \o escapeLabel(FlowLabel(Head(flows)))
                     \o <<"|", " ", MapGet(nodeIds, Head(flows).to)>> >>
          ELSE <<>>)
         \o EdgeLines(Tail(flows), nodeIds)

\* The node ids of the components of some types, joined by commas.
RECURSIVE ClassNodes(_, _, _)
ClassNodes(components, types, nodeIds) ==
    IF components = <<>> THEN <<>>
    ELSE (IF Head(components).type \in types
          THEN <<MapGet(nodeIds, Head(components).name)>> ELSE <<>>)
         \o ClassNodes(Tail(components), types, nodeIds)

\* The classDef and class lines of one style, when it has nodes.
StyleLines(class, types, components, nodeIds) ==
    IF Len(ClassNodes(components, types, nodeIds)) > 0
    THEN << <<"  classDef ", class>>,
            <<"  class ">> \o Join([k \in 1..Len(ClassNodes(components, types, nodeIds)) |->
                                      <<ClassNodes(components, types, nodeIds)[k]>>], <<",">>)
                \o <<" ", class>> >>
    ELSE <<>>

\* The lines of the diagram, given the node ids.
DiagramLines(components, dataFlows, trustBoundaries, nodeIds) ==
    << <<"graph LR">> >>
    \o SubgraphLines(GroupByBoundary(trustBoundaries, nodeIds, <<>>), 1, components, nodeIds)
    \o NodeLines("  ", Ungrouped(components, trustBoundaries), components, nodeIds)
    \o EdgeLines(dataFlows, nodeIds)
    \o << <<>>, <<"  %% Styling">> >>
    \o StyleLines("external", {"external"}, components, nodeIds)
    \o StyleLines("api", {"api", "gateway"}, components, nodeIds)
    \o StyleLines("db", {"database"}, components, nodeIds)
    \o StyleLines("service", {"service"}, components, nodeIds)
    \o StyleLines("queue", {"queue"}, components, nodeIds)

\* generateDFD(analysis): the lines of the diagram text.
generateDFD(analysis) ==
    IF Len(analysis.components) = 0
    THEN << <<"graph LR">>, <<"  A[No components detected]">> >>
    ELSE DiagramLines(analysis.components, analysis.dataFlows, analysis.trustBoundaries,
                      AssignNodeIds(analysis.components, 1, <<>>))

\* A name of extractArchitecture as a text: it holds no symbol escapeLabel
\* changes, so it is one symbol here.
NameText(name) == <<name>>

\* The analysis of extractArchitecture with its names and labels as texts.
AsTexts(analysis) ==
    [components |->
        [i \in 1..Len(analysis.components) |->
            [name |-> NameText(analysis.components[i].name),
             type |-> analysis.components[i].type]],
     dataFlows |->
        [i \in 1..Len(analysis.dataFlows) |->
            [from |-> NameText(analysis.dataFlows[i].from),
             to |-> NameText(analysis.dataFlows[i].to),
             protocol |-> NameText(analysis.dataFlows[i].protocol),
             dataType |-> NameText(analysis.dataFlows[i].dataType)]],
     trustBoundaries |->
        [i \in 1..Len(analysis.trustBoundaries) |->
            [name |-> NameText(analysis.trustBoundaries[i].name),
             components |->
                [k \in 1..Len(analysis.trustBoundaries[i].components) |->
                    NameText(analysis.trustBoundaries[i].components[k])]]]]

\* const dfdMermaid = generateDFD(analysis) on what extractArchitecture
\* returned.
GenerateDFD ==
    /\ archResult.done
    /\ ~dfdResult.done
    /\ dfdInput' = AsTexts(archResult)
    /\ dfdResult' = [done |-> TRUE, lines |-> generateDFD(AsTexts(archResult))]
    /\ UNCHANGED <<riskVars, parseVars, scanVars, pipeVars, walkVars, archInput, archResult>>

NextArch == ExtractArchitecture \/ GenerateDFD

SpecArch == InitArch /\ [][NextArch]_vars

--------------------------------------------------------------------------
(* Claims about the stored severity *)

\* The severity the risk engine computes from the factors a threat was
\* persisted with, Note surfaced as Low.
EngineSeverity(id) ==
    SurfacedSeverity(calculateRiskRating(persistLog[id].owaspLikelihood,
                                         persistLog[id].owaspImpact).riskSeverity)

\* C1 as stated: in every reachable state the severity stored on every
\* persisted threat is the severity the risk engine computes from that
\* threat's factors, Note surfaced as Low.
C1_StoredSeverityIsEngineSeverity ==
    \A id \in DOMAIN threats : threats[id].severity = EngineSeverity(id)

\* C1 as amended: the severity stored on a persisted threat is the severity
\* of the last PATCH /threats/:id that was accepted with a severity; on a
\* threat no such request reached it is the severity the risk engine computes
\* from the threat's factors, Note surfaced as Low. Analysis runs, apply-fix
\* requests and PATCH requests without a severity leave it as it is.
C1_StoredSeverityIsEngineOrPatched ==
    \A id \in DOMAIN threats :
        threats[id].severity =
            IF HasRow(patchLog, id) THEN patchLog[id] ELSE EngineSeverity(id)

\* C1: a threat whose severity a PATCH set away from the engine's and whose
\* fix was applied afterwards or before, next to a threat never patched.
C1_Witness ==
    /\ \E id \in DOMAIN threats :
          /\ HasRow(patchLog, id)
          /\ patchLog[id] # EngineSeverity(id)
          /\ threats[id].status = "Mitigated"
    /\ \E id \in DOMAIN threats : ~HasRow(patchLog, id)

\* C2: whenever a step persists a threat, on either route and in either
\* mode, the severity of the new row is the one calculateRiskRating returns
\* for the factors of the generated record, Note written as Low, whatever
\* severity the generated record carries.
C2_PersistedSeverityIsRecomputed ==
    [][\A id \in (DOMAIN threats') \ (DOMAIN threats) :
          /\ HasRow(persistLog', id)
          /\ threats'[id].severity =
                SurfacedSeverity(
                    calculateRiskRating(persistLog'[id].owaspLikelihood,
                                        persistLog'[id].owaspImpact).riskSeverity)]_vars

\* C2: a repository run without credentials persisted a threat whose
\* generated severity differs from the one written, and a design-document
\* run persisted a threat parsed from a model answer.
C2_Witness ==
    /\ \E id \in DOMAIN threats :
          /\ persistLog[id].source = "github-repo"
          /\ persistLog[id].demo
          /\ persistLog[id].generated # threats[id].severity
    /\ \E id \in DOMAIN threats :
          /\ persistLog[id].source = "design-doc"
          /\ ~persistLog[id].demo

--------------------------------------------------------------------------
(* Claims about the temporary directory of analyzeRepo *)

\* Run r leaves analyzeRepo in this step, by return or by throw.
FinishesAnalyzeRepo(r) ==
    InAnalyzeRepo(r) /\ runs'[r].pc \notin {"analyzeRepo", "cloneRefused", "cloning"}

\* C13: every invocation of analyzeRepo, returning or throwing, has removed
\* its temporary directory when it finishes.
C13_TmpDirRemovedAtFinish ==
    [][\A r \in 1..Len(runs) :
          FinishesAnalyzeRepo(r) => TmpDir(runs[r].session) \notin tmpDirs']_vars

\* Run r clones into, reads from or deletes its temporary directory in this
\* step: git creates it, or analyzeRepo reads the clone and removes it, or
\* removes it on a throw.
TouchesTmpDir(r) ==
    \/ runs[r].pc = "analyzeRepo" /\ runs'[r].pc = "cloning"
    \/ FinishesAnalyzeRepo(r)

\* C14: however the runs interleave, no run clones into, reads from or
\* deletes a temporary directory that another run in progress is using.
C14_TmpDirExclusive ==
    [][\A r \in 1..Len(runs) :
          TouchesTmpDir(r)
          => \A o \in 1..Len(runs) :
                o # r /\ InAnalyzeRepo(o)
                => TmpDir(runs[o].session) # TmpDir(runs[r].session)]_vars

--------------------------------------------------------------------------
(* Claims about the degraded generator *)

\* generateThreats of run r has returned the demo threats.
DemoReturned(r) ==
    runs[r].source = "github-repo" /\ runs[r].demo /\ runs[r].pc \in {"done", "failed"}

\* C15: without credentials generateThreats returns at least one record
\* per finding of the analysis, and the severity of every returned record
\* is the risk engine's severity for the record's factors.
C15_DemoRecordPerFindingEngineSeverity ==
    \A r \in 1..Len(runs) :
        DemoReturned(r)
        => /\ Len(runs[r].generated) >= Len(runs[r].analysis.securityFindings)
           /\ \A i \in 1..Len(runs[r].analysis.securityFindings) :
                 \E j \in 1..Len(runs[r].generated) :
                    runs[r].generated[j].mitigations[1]
                        = FindingMitigation(runs[r].analysis.securityFindings[i])
           /\ \A j \in 1..Len(runs[r].generated) :
                 runs[r].generated[j].severity
                    = SurfacedSeverity(GtRiskRating(runs[r].generated[j]).riskSeverity)

--------------------------------------------------------------------------
(* Claims about the model call *)

\* The session of run r is no longer in status Processing.
LeftProcessing(r) ==
    r \in 1..Len(runs) /\ sessions[runs[r].session].status # "Processing"

\* C16: a model call settles in bounded time, after a bounded number of
\* retries at most, so every started run on the repository path eventually
\* leaves status Processing.
C16_StartedRunLeavesProcessing ==
    \A r \in 1..MaxRuns :
        (r \in 1..Len(runs) /\ runs[r].source = "github-repo") ~> LeftProcessing(r)

--------------------------------------------------------------------------
(* Claims about the extracted architecture *)

\* The types of the seven detections, the auth service by its name.
Categories == {"api", "frontend", "database", "queue", "config", "gateway"}

\* The file list has a file of some detection.
SomeCategoryMatched(files) ==
    \E i \in 1..Len(files) :
        \/ IsApiFile(files[i]) \/ IsFrontendFile(files[i]) \/ IsDbFile(files[i])
        \/ IsQueueFile(files[i]) \/ IsAuthFile(files[i]) \/ IsInfraFile(files[i])
        \/ IsGatewayFile(files[i])

\* The positions of the components that satisfy a test on type and name.
ComponentsWhere(components, types, names) ==
    {i \in 1..Len(components) :
        components[i].type \in types /\ components[i].name \in names}

AllNames(components) == {components[i].name : i \in 1..Len(components)}

\* C17: the returned components have pairwise distinct names, at most one
\* per category, the generic Application component exactly when no category
\* matched, and exactly one external component, End User.
C17_ComponentsDistinctOnePerCategory ==
    archResult.done
    => /\ \A i, j \in 1..Len(archResult.components) :
             archResult.components[i].name = archResult.components[j].name => i = j
       /\ \A type \in Categories :
             Cardinality(ComponentsWhere(archResult.components, {type},
                                         AllNames(archResult.components))) <= 1
       /\ Cardinality(ComponentsWhere(archResult.components, {"service"},
                                      {"Auth Service"})) <= 1
       /\ Cardinality(ComponentsWhere(archResult.components, {"service"},
                                      {"Application"}))
             = IF SomeCategoryMatched(archInput) THEN 0 ELSE 1
       /\ Cardinality(ComponentsWhere(archResult.components, {"service"},
                                      AllNames(archResult.components)
                                        \ {"Auth Service", "Application"})) = 0
       /\ ComponentsWhere(archResult.components, {"external"},
                          AllNames(archResult.components))
             = ComponentsWhere(archResult.components, {"external"}, {"End User"})
       /\ Cardinality(ComponentsWhere(archResult.components, {"external"},
                                      {"End User"})) = 1

\* C17 witness: an architecture with several detected components, the auth
\* service among them.
C17_Witness ==
    /\ archResult.done
    /\ Len(archResult.components) >= 4
    /\ HasType(archResult.components, "api")
    /\ HasName(archResult.components, "Auth Service")

\* C18: both ends of every returned data flow are names of returned
\* components.
C18_FlowEndsAreComponents ==
    archResult.done
    => \A k \in 1..Len(archResult.dataFlows) :
          /\ archResult.dataFlows[k].from \in AllNames(archResult.components)
          /\ archResult.dataFlows[k].to \in AllNames(archResult.components)

\* C18 witness: flows through the gateway, the auth service and the
\* database are returned.
C18_Witness ==
    /\ archResult.done
    /\ Len(archResult.dataFlows) >= 4
    /\ \E k \in 1..Len(archResult.dataFlows) : archResult.dataFlows[k].to = "API Gateway"
    /\ \E k \in 1..Len(archResult.dataFlows) : archResult.dataFlows[k].from = "Auth Service"

--------------------------------------------------------------------------
(* Claims about the end of a run *)

\* Run r ends in this step with the given position.
EndsAs(r, pc) == runs[r].pc \notin {"done", "failed"} /\ runs'[r].pc = pc

\* After the step the tables hold the diagram (repository path) and every
\* threat and mitigation run r generated.
RunPersisted(r) ==
    /\ runs[r].source = "github-repo" => sessions'[runs[r].session].dfd_mermaid # Null
    /\ \A i \in 1..Len(runs'[r].generated) :
          /\ HasRow(threats', ThreatId(runs[r].session, i))
          /\ threats'[ThreatId(runs[r].session, i)].session_id = runs[r].session
          /\ threats'[ThreatId(runs[r].session, i)].title = runs'[r].generated[i].title
          /\ \A j \in 1..Len(runs'[r].generated[i].mitigations) :
                HasRow(mitigations', MitigationId(runs[r].session, i, j))

--------------------------------------------------------------------------
(* Claims about apply-fix *)

\* applyFix is called and reports success.
FixApplied(threatId, mitigationId, applied) ==
    applied /\ ~ApplyFixRejected(threatId, mitigationId)

\* C20: apply-fix sets the threat Mitigated and the chosen mitigation
\* Implemented exactly when applyFix reports success, and changes no other
\* row; when it answers an error before the call, or applyFix fails or
\* throws, no threat and no mitigation changes.
C20_ApplyFixChangesStatusOnSuccessOnly ==
    [][\A threatId \in TargetThreats, mitigationId \in MitigationIds, applied \in BOOLEAN :
          ApplyFix(threatId, mitigationId, applied)
          => IF FixApplied(threatId, mitigationId, applied)
             THEN /\ threats'[threatId].status = "Mitigated"
                  /\ threats'[threatId].severity = threats[threatId].severity
                  /\ mitigations'[ChosenMitigation(threatId, mitigationId).v].status
                        = "Implemented"
                  /\ \A t \in DOMAIN threats \ {threatId} : threats'[t] = threats[t]
                  /\ \A m \in DOMAIN mitigations
                              \ {ChosenMitigation(threatId, mitigationId).v} :
                        mitigations'[m] = mitigations[m]
             ELSE threats' = threats /\ mitigations' = mitigations]_vars

\* C20 witness: a fix was applied: a threat is Mitigated, one of its
\* mitigations Implemented and another still Proposed.
C20_Witness ==
    \E m, o \in DOMAIN mitigations :
        /\ mitigations[m].status = "Implemented"
        /\ HasRow(threats, mitigations[m].threat_id)
        /\ threats[mitigations[m].threat_id].status = "Mitigated"
        /\ mitigations[o].status = "Proposed"

--------------------------------------------------------------------------
(* Insights of a session: insight-engine.ts *)

\* listThreats(sessionId): the ids of the threats of the session.
listThreats(threatTbl, sessionId) ==
    {id \in DOMAIN threatTbl : threatTbl[id].session_id = sessionId}

\* listMitigations(threatId): the ids of the mitigations of the threat.
listMitigations(mitigationTbl, threatId) ==
    {id \in DOMAIN mitigationTbl : mitigationTbl[id].threat_id = threatId}

\* Math.round((part / whole) * 100) for counts, 0 for no threats.
Percentage(part, whole) ==
    IF whole > 0 THEN (200 * part + whole) \div (2 * whole) ELSE 0

\* mitigationRate of computeInsights on the rows of a session: the threats
\* that have a mitigation row, whatever its status, over all threats.
mitigationRate(threatTbl, mitigationTbl, sessionId) ==
    [threatsWithMitigation |->
        Cardinality({t \in listThreats(threatTbl, sessionId) :
                        listMitigations(mitigationTbl, t) # {}}),
     totalThreats |-> Cardinality(listThreats(threatTbl, sessionId)),
     percentage |->
        Percentage(Cardinality({t \in listThreats(threatTbl, sessionId) :
                                   listMitigations(mitigationTbl, t) # {}}),
                   Cardinality(listThreats(threatTbl, sessionId)))]

\* C21: after a successful apply-fix on a threat that was Identified the
\* threat is Mitigated and the mitigation rate percentage of its session is
\* higher than before.
C21_FixRaisesMitigationRate ==
    [][\A threatId \in TargetThreats, mitigationId \in MitigationIds :
          /\ ApplyFix(threatId, mitigationId, TRUE)
          /\ FixApplied(threatId, mitigationId, TRUE)
          /\ threats[threatId].status = "Identified"
          => /\ threats'[threatId].status = "Mitigated"
             /\ mitigationRate(threats', mitigations', threats[threatId].session_id).percentage
                   > mitigationRate(threats, mitigations, threats[threatId].session_id).percentage]_vars

--------------------------------------------------------------------------
(* repairTruncatedJsonArray on arbitrary slices *)

\* The symbols of the slices and the most symbols after the first.
SliceSymbols == {"[", "]", "{", "}", QUOTE, BACKSLASH}
MaxSliceLen == 6

\* What parseThreatsResponse hands over: the text from its first opening
\* bracket on, or the whole text when it has none (an object, here).
Slices ==
    {<<first>> \o rest : first \in {"[", "{"}, rest \in SeqsUpTo(SliceSymbols, MaxSliceLen)}

InitRepair ==
    /\ RiskIdle
    /\ ScanIdle
    /\ PipeIdle
    /\ AnalyzerIdle
    /\ respElems = <<>>
    /\ fenced = FALSE
    /\ cutAt = 0
    /\ text \in Slices
    /\ parsed = [done |-> FALSE]

\* A call repairTruncatedJsonArray(jsonStr).
RepairSlice ==
    /\ ~parsed.done
    /\ parsed' = [done |-> TRUE, r |-> repairTruncatedJsonArray(text)]
    /\ UNCHANGED <<riskVars, respElems, fenced, cutAt, text, scanVars, pipeVars, analyzerVars>>

NextRepair == RepairSlice

SpecRepair == InitRepair /\ [][NextRepair]_vars

\* The nesting of a slice read as JSON text, symbol by symbol: a backslash
\* escapes inside a string literal only, and the top-level array is the one
\* the slice opens with, until its closing bracket.
NestingStep(st, ch, i) ==
    IF st.inString
    THEN (IF st.escape THEN [st EXCEPT !.escape = FALSE]
          ELSE IF ch = BACKSLASH THEN [st EXCEPT !.escape = TRUE]
          ELSE IF ch = QUOTE THEN [st EXCEPT !.inString = FALSE]
          ELSE st)
    ELSE IF ch = QUOTE THEN [st EXCEPT !.inString = TRUE]
    ELSE IF ch \in {"[", "{"}
         THEN [st EXCEPT !.depth = st.depth + 1,
                         !.inArray = IF i = 0 THEN ch = "[" ELSE st.inArray]
    ELSE IF ch \in {"]", "}"}
         THEN [st EXCEPT !.depth = st.depth - 1,
                         !.inArray = st.inArray /\ st.depth - 1 >= 1,
                         !.lastEnd = IF ch = "}" /\ st.depth - 1 = 1 /\ st.inArray
                                     THEN i ELSE st.lastEnd]
    ELSE st

RECURSIVE Nesting(_, _, _)
Nesting(s, i, st) ==
    IF i > Len(s) THEN st ELSE Nesting(s, i + 1, NestingStep(st, s[i], i - 1))

\* The index of the last closing brace that closes a direct element of the
\* top-level array of the slice, -1 when there is none.
LastDirectElementEnd(s) ==
    Nesting(s, 1, [depth |-> 0, inString |-> FALSE, escape |-> FALSE,
                   inArray |-> FALSE, lastEnd |-> -1]).lastEnd

\* C22: repairTruncatedJsonArray returns the prefix of the slice up to the
\* last closing brace of a direct element of the top-level array, followed
\* by a closing bracket, symbols of string literals not counting for the
\* nesting; it throws when there is no such brace.
C22_RepairCutsAtLastDirectElement ==
    parsed.done
    => IF LastDirectElementEnd(text) >= 0
       THEN /\ parsed.r.ok
            /\ parsed.r.val = Prefix(text, LastDirectElementEnd(text) + 1) \o <<"]">>
       ELSE ~parsed.r.ok

--------------------------------------------------------------------------
(* validateThreat on single elements *)

\* A field of a parsed object, left out when it has no value.
Field(key, val) == IF val = Undef THEN <<>> ELSE << << <<key>>, val >> >>

\* A parsed element with the given values of five of its fields.
RawThreat(stride, title, assets, assumptions, mits) ==
    Obj(Field("strideCategory", stride) \o Field("title", title)
        \o Field("impactedAssets", assets) \o Field("assumptions", assumptions)
        \o Field("mitigations", mits))

\* The elements validateThreat is called on: each field absent, well-formed
\* or of another type.
RawThreats ==
    {RawThreat(stride, title, assets, assumptions, mits) :
        stride \in {Undef, Str(<<"Tampering">>), Str(<<"Bogus">>), Num(7)},
        title \in {Undef, Str(<<"T1">>), Str(<<>>), Num(7)},
        assets \in {Undef, Arr(<<Str(<<"db">>), Num(7)>>), Str(<<"db">>), Null},
        assumptions \in {Undef, Arr(<<Str(<<"tls">>)>>), Str(<<"tls">>)},
        mits \in {Undef, Arr(<<Rec(<<"description">>, <<Str(<<"fix">>)>>)>>),
                  Str(<<"fix">>), Arr(<<Null>>)}}

InitValidate ==
    /\ RiskIdle
    /\ ScanIdle
    /\ PipeIdle
    /\ AnalyzerIdle
    /\ respElems \in {<<raw>> : raw \in RawThreats}
    /\ fenced = FALSE
    /\ cutAt = 0
    /\ text = <<>>
    /\ parsed = [done |-> FALSE]

\* A call validateThreat(raw) of parsed.map(validateThreat).
ValidateElement ==
    /\ ~parsed.done
    /\ parsed' = [done |-> TRUE, r |-> validateThreat(respElems[1])]
    /\ UNCHANGED <<riskVars, respElems, fenced, cutAt, text, scanVars, pipeVars, analyzerVars>>

NextValidate == ValidateElement

SpecValidate == InitValidate /\ [][NextValidate]_vars

\* The element was kept: validateThreat returned a record.
KeptRecord == parsed.done /\ parsed.r.kept

IsText(x) == x \in Seq(STRING)

\* The raw value of a field is not an array (absent included).
NotArray(key) == ~IsArray(Get(respElems[1], key))

\* The category and the free-text fields of a kept record: an allowed
\* category, the default for a raw value that is not one; strings, the
\* placeholder for an absent raw value.
CategoryAndTextNormalized ==
    /\ parsed.r.strideCategory \in validStride
    /\ (Get(respElems[1], "strideCategory").k # "string"
        \/ Get(respElems[1], "strideCategory").v \notin {<<c>> : c \in validStride})
       => parsed.r.strideCategory = "Information Disclosure"
    /\ \A f \in {"title", "threatSource", "prerequisites", "threatAction",
                 "threatImpact", "trustBoundary"} : IsText(parsed.r[f])
    /\ Get(respElems[1], "title") = Undef => parsed.r.title = <<"Untitled Threat">>
    /\ parsed.r.threatSource = <<"Unknown actor">>
    /\ parsed.r.prerequisites = <<"None specified">>
    /\ parsed.r.threatAction = <<"Unknown action">>
    /\ parsed.r.threatImpact = <<"Unknown impact">>
    /\ parsed.r.trustBoundary = <<"Unknown boundary">>

\* C23 as stated: a kept record has an allowed category, strings for its
\* free-text fields and, for each of impactedAssets, assumptions and
\* mitigations whose raw value is absent or not an array, the empty list.
C23_KeptRecordNormalizedEmptyArrays ==
    KeptRecord
    => /\ CategoryAndTextNormalized
       /\ \A f \in {"impactedAssets", "assumptions", "mitigations"} :
             NotArray(f) => parsed.r[f] = <<>>

\* C23 amended: the same, but impactedAssets whose raw value is absent or
\* not an array becomes the one-entry list Application; assumptions and
\* mitigations become the empty list.
C23_KeptRecordNormalized ==
    KeptRecord
    => /\ CategoryAndTextNormalized
       /\ NotArray("impactedAssets") => parsed.r.impactedAssets = << <<"Application">> >>
       /\ \A f \in {"assumptions", "mitigations"} : NotArray(f) => parsed.r[f] = <<>>

\* C23 witness: a record was kept for an element with a category that is
\* not allowed, no title and array fields that are strings or absent.
C23_Witness ==
    /\ KeptRecord
    /\ Get(respElems[1], "strideCategory") = Str(<<"Bogus">>)
    /\ Get(respElems[1], "title") = Undef
    /\ Get(respElems[1], "impactedAssets") = Str(<<"db">>)
    /\ Get(respElems[1], "assumptions") = Undef
    /\ Get(respElems[1], "mitigations") = Str(<<"fix">>)

--------------------------------------------------------------------------
(* Claims about the data flows *)

\* A rule of the table: the flow when the condition holds.
Rule(condition, from, to) == IF condition THEN << <<from, to>> >> ELSE <<>>

\* The rules that follow the first one, in order.
LaterRules(api, db, queue, auth, gateway) ==
    Rule(gateway /\ api, "API Gateway", "API Server")
    \o Rule(api /\ auth, "API Server", "Auth Service")
    \o Rule(api /\ db, "API Server", "Database")
    \o Rule(auth /\ db, "Auth Service", "Database")
    \o Rule(api /\ queue, "API Server", "Message Queue")

\* The rule table as stated: frontend to API if both exist, else End User
\* to the gateway if present and otherwise to the API; then the later rules.
TableAsStated(api, db, queue, auth, frontend, gateway) ==
    (IF frontend /\ api THEN << <<"Frontend Application", "API Server">> >>
     ELSE << <<"End User", IF gateway THEN "API Gateway" ELSE "API Server">> >>)
    \o LaterRules(api, db, queue, auth, gateway)

\* The rule table amended: End User to frontend and frontend to API if both
\* exist, else, if the API exists, End User to the gateway if present and
\* otherwise to the API; then the later rules.
TableAmended(api, db, queue, auth, frontend, gateway) ==
    (IF frontend /\ api
     THEN << <<"End User", "Frontend Application">>,
             <<"Frontend Application", "API Server">> >>
     ELSE Rule(api, "End User", IF gateway THEN "API Gateway" ELSE "API Server"))
    \o LaterRules(api, db, queue, auth, gateway)

\* The ends of the returned flows, in order.
ReturnedFlowEnds ==
    [k \in 1..Len(archResult.dataFlows) |->
        <<archResult.dataFlows[k].from, archResult.dataFlows[k].to>>]

\* C24 as stated: the returned flows are exactly those of the rule table, in
\* order, for the categories present among the returned components.
C24_FlowsAreTableAsStated ==
    archResult.done
    => ReturnedFlowEnds
         = TableAsStated(HasType(archResult.components, "api"),
                         HasType(archResult.components, "database"),
                         HasType(archResult.components, "queue"),
                         HasName(archResult.components, "Auth Service"),
                         HasType(archResult.components, "frontend"),
                         HasType(archResult.components, "gateway"))

\* C24 amended: the returned flows are exactly those of the amended table.
C24_FlowsAreTableAmended ==
    archResult.done
    => ReturnedFlowEnds
         = TableAmended(HasType(archResult.components, "api"),
                        HasType(archResult.components, "database"),
                        HasType(archResult.components, "queue"),
                        HasName(archResult.components, "Auth Service"),
                        HasType(archResult.components, "frontend"),
                        HasType(archResult.components, "gateway"))

\* C24 witness: frontend, API, database and queue are present and the flows
\* through them are returned.
C24_Witness ==
    /\ archResult.done
    /\ HasType(archResult.components, "frontend")
    /\ HasType(archResult.components, "queue")
    /\ Len(archResult.dataFlows) >= 4
    /\ \E k \in 1..Len(archResult.dataFlows) :
          archResult.dataFlows[k].from = "Frontend Application"

--------------------------------------------------------------------------
(* generateDFD on analyses with arbitrary names and labels *)

\* The symbols of a name or label: a letter, the symbols escapeLabel looks
\* for, and the bar that delimits an edge label.
LabelSymbols == {"a", QUOTE, "[", "]", "{", "}", "(", ")", "#", "|"}
MaxLabelLen == 2
Labels == SeqsUpTo(LabelSymbols, MaxLabelLen) \ {<<>>}

ComponentTypes == {"database", "external", "queue", "gateway", "api"}

\* An analysis of two components, a boundary around the first and a flow
\* between them.
LabelledAnalysis(name, type, boundary, protocol, dataType) ==
    [components |-> <<[name |-> name, type |-> type],
                      [name |-> <<"b">>, type |-> "service"]>>,
     dataFlows |-> <<[from |-> name, to |-> <<"b">>,
                      protocol |-> protocol, dataType |-> dataType]>>,
     trustBoundaries |-> <<[name |-> boundary, components |-> <<name>>]>>]

\* The analyses: one text of the analysis is arbitrary, the others plain.
LabelledAnalyses ==
    {LabelledAnalysis(l, t, <<"a">>, <<"a">>, <<"a">>) : l \in Labels, t \in ComponentTypes}
    \cup {LabelledAnalysis(<<"a">>, "api", l, <<"a">>, <<"a">>) : l \in Labels}
    \cup {LabelledAnalysis(<<"a">>, "api", <<"a">>, l, <<"a">>) : l \in Labels}
    \cup {LabelledAnalysis(<<"a">>, "api", <<"a">>, <<>>, l) : l \in Labels}

InitDfd ==
    /\ RiskIdle /\ ParseIdle /\ ScanIdle /\ PipeIdle /\ WalkIdle
    /\ archInput = <<>>
    /\ archResult = [done |-> FALSE]
    /\ dfdInput \in LabelledAnalyses
    /\ dfdResult = [done |-> FALSE]

\* generateDFD(analysis)
GenerateDFDOfAnalysis ==
    /\ dfdInput # <<>>
    /\ ~dfdResult.done
    /\ dfdResult' = [done |-> TRUE, lines |-> generateDFD(dfdInput)]
    /\ UNCHANGED <<riskVars, parseVars, scanVars, pipeVars, walkVars,
                   archInput, archResult, dfdInput>>

NextDfd == GenerateDFDOfAnalysis
SpecDfd == InitDfd /\ [][NextDfd]_vars

\* How often a symbol occurs in a line.
Occurrences(line, sym) == Cardinality({i \in 1..Len(line) : line[i] = sym})

\* The symbols the claim says are stripped from a label.
Stripped == {QUOTE, "[", "]", "{", "}", "(", ")", "#"}

IsEdgeLine(line) == Len(line) >= 3 /\ line[3] = " -->"
IsSubgraphLine(line) == Len(line) >= 1 /\ line[1] = "  subgraph "
IsNodeLine(line) ==
    /\ Len(line) >= 2
    /\ line[1] \in {"  ", "    "}
    /\ ~IsEdgeLine(line)

\* An edge line parses: its label lies between the only two bars and holds
\* no stripped symbol.
EdgeLineParses(line) ==
    /\ Occurrences(line, "|") = 2
    /\ \A i \in 5..(Len(line) - 3) : line[i] \notin Stripped

\* A node or subgraph line parses: its label lies between the only two
\* quotes, and the brackets around it are those of the construct alone.
QuotedLineParses(line) ==
    /\ Occurrences(line, QUOTE) = 2
    /\ \A i \in 1..Len(line) :
          (\E j \in 1..(i - 1) : line[j] = QUOTE) /\ (\E j \in (i + 1)..Len(line) : line[j] = QUOTE)
             => line[i] \notin Stripped

--------------------------------------------------------------------------
(* Trust boundaries and the nodes of the diagram *)

\* The trust boundaries of the returned architecture that list a name.
BoundariesOf(name) ==
    {b \in 1..Len(archResult.trustBoundaries) :
        \E k \in 1..Len(archResult.trustBoundaries[b].components) :
           archResult.trustBoundaries[b].components[k] = name}

\* The lines of the diagram that declare the node of the i-th component.
NodeLinesOf(i) ==
    {k \in 1..Len(dfdResult.lines) :
        /\ IsNodeLine(dfdResult.lines[k])
        /\ dfdResult.lines[k][2] = NodeId(i - 1)}

\* The subgraph line that opens the block a line of the diagram lies in.
BlockOf(k) ==
    CHOOSE j \in 1..k :
       /\ IsSubgraphLine(dfdResult.lines[j])
       /\ \A h \in (j + 1)..k : ~IsSubgraphLine(dfdResult.lines[h])

\* C27: each component extractArchitecture returns is a member of exactly
\* one returned trust boundary, and generateDFD emits its node exactly
\* once, indented inside the block of that boundary.
C27_OneBoundaryOneNode ==
    dfdResult.done =>
        \A i \in 1..Len(archResult.components) :
           /\ Cardinality(BoundariesOf(archResult.components[i].name)) = 1
           /\ Cardinality(NodeLinesOf(i)) = 1
           /\ \A k \in NodeLinesOf(i) :
                 /\ dfdResult.lines[k][1] = "    "
                 /\ \A b \in BoundariesOf(archResult.components[i].name) :
                       dfdResult.lines[BlockOf(k)][5]
                          = archResult.trustBoundaries[b].name

--------------------------------------------------------------------------
(* Reported levels and reported scores *)

\* getLevel on a reported score, which is in hundredths.
LevelOfReported(score) == getLevel(IF score = NaN THEN NaN ELSE score * 10)

\* C26: for sub-factor values in 0..9 the level calculateRiskRating reports
\* is the bucket of the two-decimal score it reports, for the likelihood
\* and for the impact: rounding moves no score across 3.00 or 6.00.
C26_LevelIsBucketOfReportedScore ==
    (rating.done /\ ValidRaw(rawLikelihood, LikelihoodFields)
                 /\ ValidRaw(rawImpact, ImpactFields)) =>
        /\ rating.r.likelihoodLevel = LevelOfReported(rating.r.likelihoodScore)
        /\ rating.r.impactLevel = LevelOfReported(rating.r.impactScore)

\* C26 witness: a rated likelihood whose mean 2.875 is reported as 2.88,
\* rounded up towards the 3.00 boundary, with level LOW.
C26_Witness ==
    /\ rating.done
    /\ ValidRaw(rawLikelihood, LikelihoodFields)
    /\ ValidRaw(rawImpact, ImpactFields)
    /\ rating.r.likelihoodScore = 288
    /\ rating.r.likelihoodLevel = "LOW"

--------------------------------------------------------------------------
(* The mitigation apply-fix works on *)

\* C28: whenever apply-fix marks a threat Mitigated, the mitigation it
\* marks Implemented, whose code fix it applied, is a mitigation of that
\* threat, also when the request names the mitigation.
C28_AppliedMitigationBelongsToThreat ==
    [][\A threatId \in TargetThreats, mitigationId \in MitigationIds :
          (ApplyFix(threatId, mitigationId, TRUE) /\ FixApplied(threatId, mitigationId, TRUE))
          => /\ threats'[threatId].status = "Mitigated"
             /\ mitigations'[ChosenMitigation(threatId, mitigationId).v].status
                   = "Implemented"
             /\ mitigations[ChosenMitigation(threatId, mitigationId).v].threat_id
                   = threatId]_vars

--------------------------------------------------------------------------
(* Runs of one session *)

\* Run r is in progress: started and not yet ended.
InProgress(r) == runs[r].pc \notin {"done", "failed"}

\* At most one run of each session is in progress.
OneRunInProgress ==
    \A r, o \in 1..Len(runs) :
        (r # o /\ runs[r].session = runs[o].session) => ~(InProgress(r) /\ InProgress(o))

\* The persisting step of run r ends it failed: an INSERT threw on an
\* identifier that is in the table already.
FailsOnInsertedId(r) ==
    /\ \/ GenerateThreatsDemo(r)
       \/ ContextLayerReturns(r)
    /\ runs'[r].pc = "failed"

\* C29: under every interleaving of analyze requests, at most one run of a
\* session is in progress at any time, and no run fails because an
\* identifier it inserts was already inserted by another run of the
\* session.
C29_OneRunPerSessionNoIdClash ==
    /\ []OneRunInProgress
    /\ [][\A r \in 1..Len(runs) : ~FailsOnInsertedId(r)]_vars

--------------------------------------------------------------------------
(* The design-document path *)

\* The step is one of run r.
StepOf(r) == runs'[r] # runs[r]

\* The step persists nothing.
NothingPersisted ==
    threats' = threats /\ mitigations' = mitigations /\ designReviews' = designReviews

\* One of the three parallel generations of run r, or its context-layer
\* generation, fails in this step.
GenerationFails(r) ==
    /\ \/ StepThrows(r)
       \/ \E answer \in ModelTexts : Phase1Model(r, answer)
    /\ EndsAs(r, "failed")

\* C30: on the design-document path the context-layer generation starts
\* only in the step in which the three parallel generations have
\* succeeded; no step of the run before the context layer has returned
\* persists a row; and when one of the three or the context-layer
\* generation fails, the run ends with its session Failed and no threat,
\* mitigation or design-review row persisted.
C30_ContextLayerAfterPhase1FailurePersistsNothing ==
    [][\A r \in 1..Len(runs) :
          (runs[r].source = "design-doc" /\ StepOf(r)) =>
             /\ runs'[r].pc = "contextLayer"
                   => /\ runs[r].pc = "phase1"
                      /\ \/ Phase1Demo(r)
                         \/ \E answer \in ModelTexts :
                               parseThreatsResponse(answer).ok /\ Phase1Model(r, answer)
             /\ runs[r].pc = "phase1" => NothingPersisted
             /\ GenerationFails(r)
                   => /\ sessions'[runs[r].session].status = "Failed"
                      /\ NothingPersisted]_vars

\* C30 witness: the three generations of a design-document run succeeded,
\* its context-layer generation failed, the session is Failed and holds no
\* threat and no design review.
C30_Witness ==
    \E r \in 1..Len(runs) :
        /\ runs[r].source = "design-doc"
        /\ runs[r].pc = "failed"
        /\ Len(runs[r].generated) > 0
        /\ sessions[runs[r].session].status = "Failed"
        /\ listThreats(threats, runs[r].session) = {}
        /\ \A d \in DOMAIN designReviews : designReviews[d].session_id # runs[r].session

==========================================================================
